---------------------------- MODULE Spec2Model ----------------------------
(***************************************************************************)
(* A model of the smart-grid demand simulator (simulator/*.py).            *)
(*                                                                         *)
(* Time is counted in whole minutes (utils.minutesBetween), a datetime is  *)
(* an integer number of minutes.  numpy vectors are sequences; Python's    *)
(* 0-based indices are kept in the operators that translate slicing, and   *)
(* element i of a vector v is v[i+1].  Floating point numbers are modelled *)
(* by integers in a fixed unit; where the code divides, the unit is chosen *)
(* so that the division is exact or the rounding is stated.               *)
(***************************************************************************)
EXTENDS Integers, Sequences, FiniteSets, TLC

VARIABLES
    \* ---- a single Profile object and the last call made on it
    prof,       \* the Profile: [isNone, startingDT, values]
    lastCall,   \* the last method call: its arguments, the Profile before it, its outcome
    ops,        \* number of mutating calls made so far
    \* ---- a single Accumulator appliance
    acc,        \* its fields and memory between ticks
    accLast,    \* the inputs and the outcome of its last calculateSmartDemand
    \* ---- a single Battery appliance
    bat,        \* its chargingPower and the usage of the day it plans
    batLast,    \* the power profiles of its last calculateDemand
    \* ---- a single Connection generating its cheaper intervals
    conn,       \* priceConfig, cheaperMinutesProfile and the position in the generation
    \* ---- a whole simulation: Simulator.run
    sim,        \* the arguments of run, its clock and its position in the day loop
    grid,       \* the Grid
    conns,      \* the Connections of the Grid, one per House
    houses,     \* the Houses, each with its appliance
    seen,       \* what the last ticks read and wrote
    \* ---- a single House with several appliances, ticking day by day
    home, 
    \* ---- two runs of an Accumulator's calculateSmartDemand on prices of the same rank order
    rank, 
    \* ---- a single Machine appliance planning one day
    mach, 
    \* ---- the Grid alone, planning its base and target demand
    tg, 
    \* ---- the program run.py from its arguments to its exit
    run, 
    \* ---- a single Accumulator under its three policies, ticking day by day
    heater, 
    \* ---- a single Connection generating, pricing and sending day after day
    feed

profVars == <<prof, lastCall, ops>>
accVars == <<acc, accLast>>
batVars == <<bat, batLast>>
connVars == <<conn>>
simVars == <<sim, grid, conns, houses, seen>>

homeVars == <<home>>

rankVars == <<rank>>

machVars == <<mach>>

tgVars == <<tg>>

runVars == <<run>>

heaterVars == <<heater>>

feedVars == <<feed>>

vars == <<prof, lastCall, ops, acc, accLast, bat, batLast, conn,
          sim, grid, conns, houses, seen,
          home,
          rank,
          mach,
          tg,
          run,
          heater,
          feed>>

\* what each specification leaves alone
notProfVars == <<accVars, batVars, connVars, simVars, homeVars, rankVars, machVars, tgVars, runVars, heaterVars, feedVars>>
notAccVars == <<profVars, batVars, connVars, simVars, homeVars, rankVars, machVars, tgVars, runVars, heaterVars, feedVars>>
notBatVars == <<profVars, accVars, connVars, simVars, homeVars, rankVars, machVars, tgVars, runVars, heaterVars, feedVars>>
notConnVars == <<profVars, accVars, batVars, simVars, homeVars, rankVars, machVars, tgVars, runVars, heaterVars, feedVars>>
notSimVars == <<profVars, accVars, batVars, connVars, homeVars, rankVars, machVars, tgVars, runVars, heaterVars, feedVars>>
notHomeVars == <<profVars, accVars, batVars, connVars, simVars, rankVars, machVars, tgVars, runVars, heaterVars, feedVars>>
notRankVars == <<profVars, accVars, batVars, connVars, simVars, homeVars, machVars, tgVars, runVars, heaterVars, feedVars>>
notMachVars == <<profVars, accVars, batVars, connVars, simVars, homeVars, rankVars, tgVars, runVars, heaterVars, feedVars>>
notTgVars == <<profVars, accVars, batVars, connVars, simVars, homeVars, rankVars, machVars, runVars, heaterVars, feedVars>>
notRunVars == <<profVars, accVars, batVars, connVars, simVars, homeVars, rankVars, machVars, tgVars, heaterVars, feedVars>>
notHeaterVars == <<profVars, accVars, batVars, connVars, simVars, homeVars, rankVars, machVars, tgVars, runVars, feedVars>>
notFeedVars == <<profVars, accVars, batVars, connVars, simVars, homeVars, rankVars, machVars, tgVars, runVars, heaterVars>>

-----------------------------------------------------------------------------
(* Bounds of the model *)

\* largest datetime (in minutes) used as an argument of a Profile call
MaxT == 5
\* longest vector handed to Profile.set / add / transition
MaxNew == 2
\* number of mutating Profile calls in one behaviour
MaxOps == 3
\* minutes in one simulated day (the program's day has 1440)
oneDay == 2
\* number of ticks of the single Accumulator
MaxAccTicks == 1
\* minutes in one day of the single Battery (the program's day has 1440)
BatteryDay == 3
\* largest chargeNeeded of the single Battery, in energy units
MaxChargeNeeded == 9
\* minutes in one day of the single Connection (the program's day has 1440)
ConnDay == 3
\* largest priceConfig.cheapIntervalLength and priceConfig.cheapMinutesCount
MaxCheapIntervalLength == 2
MaxCheapMinutesCount == 3
\* number of midnights for which the single Connection generates intervals
MaxMidnights == 2
\* largest houseCount and simulationLength of a whole simulation
MaxHouses == 2
MaxDays == 2

\* a House has at most this many appliances and ticks at most this many days
MaxAppliances == 2
MaxHomeTicks == 2

\* prices are whole numbers from 1 to this
MaxPriceLevel == 5
\* run.py: the longest text of a number given as an argument
MaxArgLen == 2

\* the Grid alone: most connections, most ticks after setUp
MaxConnections == 2
MaxGridTicks == 2

\* Machine specification: minutes in one day, longest usage profile, highest power
MachineDay == 3
MaxRuntime == 2
MaxUsagePower == 2

\* number of ticks of the Accumulator that runs its three policies
MaxHeaterTicks == 2

\* number of ticks of the Connection that prices and sends day after day
MaxFeedTicks == 2

-----------------------------------------------------------------------------
(* Generic helpers *)

Max(a, b) == IF a >= b THEN a ELSE b
Min(a, b) == IF a <= b THEN a ELSE b

\* the greatest common divisor, and the least common multiple of 1..n
RECURSIVE Gcd(_, _)
Gcd(a, b) == IF b = 0 THEN a ELSE Gcd(b, a % b)

RECURSIVE LcmUpTo(_)
LcmUpTo(n) == IF n <= 1 THEN 1 ELSE (LcmUpTo(n - 1) * n) \div Gcd(LcmUpTo(n - 1), n)

RECURSIVE SumSeq(_)
SumSeq(s) == IF Len(s) = 0 THEN 0 ELSE s[Len(s)] + SumSeq([i \in 1..(Len(s) - 1) |-> s[i]])

\* v[:k]
Prefix(v, k) == [i \in 1..k |-> v[i]]

\* v[i] = x on a copy (i is 1-based)
SetAt(v, i, x) == [j \in 1..Len(v) |-> IF j = i THEN x ELSE v[j]]

\* numpy.zeros(n)
Zeros(n) == [i \in 1..n |-> 0]

\* utils.minutesBetween: datetimes are minute counts
minutesBetween(startDT, endDT) == endDT - startDT

-----------------------------------------------------------------------------
(* numpy / Python slicing semantics *)

\* Python's normalisation of a slice bound i for a sequence of length n
NormIndex(i, n) == IF i < 0 THEN Max(i + n, 0) ELSE Min(i, n)

\* v[a:b] (0-based, Python semantics, negative bounds count from the end)
Slice(v, a, b) ==
    LET lo == NormIndex(a, Len(v))
        hi == NormIndex(b, Len(v))
    IN  IF hi <= lo THEN <<>> ELSE [i \in 1..(hi - lo) |-> v[lo + i]]

\* length of the view v[a:b]
SliceLen(v, a, b) == Max(NormIndex(b, Len(v)) - NormIndex(a, Len(v)), 0)

\* numpy broadcasting of a 1-d operand of length m to a 1-d shape of length d
CanBroadcast(m, d) == m = d \/ m = 1
BroadcastTo(src, d) == IF Len(src) = d THEN src ELSE [i \in 1..d |-> src[1]]

\* v[a:b] = src  (raises ValueError when src cannot be broadcast to the view)
SetSlice(v, a, b, src) ==
    LET lo == NormIndex(a, Len(v))
        d  == SliceLen(v, a, b)
    IN  IF ~CanBroadcast(Len(src), d)
        THEN [error |-> TRUE, values |-> v]
        ELSE [error |-> FALSE,
              values |-> [i \in 1..Len(v) |->
                            IF i > lo /\ i <= lo + d
                            THEN BroadcastTo(src, d)[i - lo] ELSE v[i]]]

\* v[a:b] += src
AddSlice(v, a, b, src) ==
    LET lo == NormIndex(a, Len(v))
        d  == SliceLen(v, a, b)
    IN  IF ~CanBroadcast(Len(src), d)
        THEN [error |-> TRUE, values |-> v]
        ELSE [error |-> FALSE,
              values |-> [i \in 1..Len(v) |->
                            IF i > lo /\ i <= lo + d
                            THEN v[i] + BroadcastTo(src, d)[i - lo] ELSE v[i]]]

\* ndarray.resize(n, refcheck=False): new cells are zero
Resize(v, n) == [i \in 1..n |-> IF i <= Len(v) THEN v[i] ELSE 0]

\* the "large" end bound Python uses for an open slice v[a:]
OpenEnd(v) == Len(v)

-----------------------------------------------------------------------------
(* profile.py: class Profile *)

\* Profile(): no starting datetime, no values
EmptyProfile == [isNone |-> TRUE, startingDT |-> 0, values |-> <<>>]

\* the datetime one past the last stored value
EndDT(p) == p.startingDT + Len(p.values)

\* Profile.get(fromDT, toDT): [error, res]
ProfileGet(p, fromDT, toDT) ==
    LET length == minutesBetween(fromDT, toDT) IN
    IF length < 0 THEN [error |-> TRUE, res |-> <<>>]   \* numpy.zeros(negative)
    ELSE IF p.isNone THEN [error |-> FALSE, res |-> Zeros(length)]
    ELSE
      LET startIndex == minutesBetween(p.startingDT, fromDT)
          stopIndex  == Min(Len(p.values), minutesBetween(p.startingDT, toDT))
          r == SetSlice(Zeros(length), 0, stopIndex - startIndex,
                        Slice(p.values, startIndex, stopIndex))
      IN  [error |-> r.error, res |-> IF r.error THEN <<>> ELSE r.values]

\* Profile.set(fromDT, newValues): [error, p]
ProfileSet(p, fromDT, newValues) ==
    IF p.isNone
    THEN [error |-> FALSE,
          p |-> [isNone |-> FALSE, startingDT |-> fromDT, values |-> newValues]]
    ELSE
      LET startIndex == minutesBetween(p.startingDT, fromDT)
          newSize    == startIndex + Len(newValues)
          resized    == IF newSize > Len(p.values)
                        THEN Resize(p.values, newSize) ELSE p.values
          r == SetSlice(resized, startIndex, startIndex + Len(newValues), newValues)
      IN  [error |-> r.error, p |-> [p EXCEPT !.values = r.values]]

\* Profile.add(fromDT, valuesToAdd): [error, p]
ProfileAdd(p, fromDT, valuesToAdd) ==
    LET start      == IF p.isNone THEN fromDT ELSE p.startingDT
        startIndex == minutesBetween(start, fromDT)
        newSize    == startIndex + Len(valuesToAdd)
        resized    == IF newSize > Len(p.values)
                      THEN Resize(p.values, newSize) ELSE p.values
        r == AddSlice(resized, startIndex, startIndex + Len(valuesToAdd), valuesToAdd)
    IN  [error |-> r.error,
         p |-> [isNone |-> FALSE, startingDT |-> start, values |-> r.values]]

\* denominator of the fixed-point cosine ratios
RatioDen == 1000

\* (cos(linspace(0, pi, num=n, endpoint=False)) + 1) / 2, in 1/RatioDen, rounded
RatioTable ==
    <<  <<1000>>,
        <<1000, 500>>,
        <<1000, 750, 250>>,
        <<1000, 854, 500, 146>>,
        <<1000, 905, 655, 345, 95>>,
        <<1000, 933, 750, 500, 250, 67>>,
        <<1000, 950, 812, 611, 389, 188, 50>>,
        <<1000, 962, 854, 691, 500, 309, 146, 38>>  >>

\* numpy.pad(v, (0, n), constant_values=c), n >= 0
PadRight(v, n, c) == [i \in 1..(Len(v) + n) |-> IF i <= Len(v) THEN v[i] ELSE c]

\* Profile.transition(fromDT, newValues): [error, p]
ProfileTransition(p, fromDT, newValues) ==
    LET
        \* elementwise a*ma + b*mb in fixed point, with numpy broadcasting of a against ma
        \* ([error, values]); ma, mb and b have the same length
        Blend(a, ma, b, mb) ==
            IF ~(Len(a) = Len(ma) \/ Len(a) = 1 \/ Len(ma) = 1)
            THEN [error |-> TRUE, values |-> <<>>]
            ELSE LET n  == IF Len(a) = Len(ma) THEN Len(a)
                           ELSE IF Len(a) = 1 THEN Len(ma) ELSE Len(a)
                     aa == BroadcastTo(a, n)
                     mm == BroadcastTo(ma, n)
                 IN  IF ~(Len(b) = n \/ Len(b) = 1 \/ n = 1)
                     THEN [error |-> TRUE, values |-> <<>>]
                     ELSE LET k   == IF Len(b) = n THEN n ELSE IF n = 1 THEN Len(b) ELSE n
                              a2  == BroadcastTo(aa, k)
                              m2  == BroadcastTo(mm, k)
                              b2  == BroadcastTo(b, k)
                              mb2 == BroadcastTo(mb, k)
                          IN  [error |-> FALSE,
                               values |-> [i \in 1..k |->
                                   (a2[i] * m2[i] + b2[i] * mb2[i]) \div RatioDen]]
    IN
    LET
        CosRatio(n) == RatioTable[n]
    IN
    IF p.isNone THEN ProfileSet(p, fromDT, newValues)
    ELSE
      LET startIndex        == minutesBetween(p.startingDT, fromDT)
          overlappingValues == Len(p.values) - startIndex
          newSize           == startIndex + Len(newValues)
          resized           == IF newSize > Len(p.values)
                               THEN Resize(p.values, newSize) ELSE p.values
      IN  IF overlappingValues = 0
          THEN \* numpy.append on the already resized array
               [error |-> FALSE, p |-> [p EXCEPT !.values = resized \o newValues]]
          ELSE IF overlappingValues < 0
          THEN LET r == SetSlice(resized, startIndex, OpenEnd(resized), newValues)
               IN  [error |-> r.error, p |-> [p EXCEPT !.values = r.values]]
          ELSE IF Len(newValues) < overlappingValues
          THEN \* numpy.pad with a negative width raises ValueError
               [error |-> TRUE, p |-> [p EXCEPT !.values = resized]]
          ELSE
            LET oldValues == Slice(resized, startIndex, OpenEnd(resized))
                ratio     == CosRatio(overlappingValues)
                extra     == Len(newValues) - overlappingValues
                oldMask   == PadRight(ratio, extra, 0)
                newMask   == PadRight([i \in 1..Len(ratio) |-> RatioDen - ratio[i]],
                                      extra, RatioDen)
                mixed     == Blend(oldValues, oldMask, newValues, newMask)
                r         == IF mixed.error
                             THEN [error |-> TRUE, values |-> resized]
                             ELSE SetSlice(resized, startIndex, OpenEnd(resized),
                                           mixed.values)
            IN  [error |-> r.error, p |-> [p EXCEPT !.values = r.values]]

\* a prune that drops nothing
PruneNothing(p, toDT) == p

\* Profile.prune(toDT)
ProfilePrune(p, toDT) ==
    IF p.isNone THEN p
    ELSE IF toDT <= p.startingDT THEN p
    ELSE LET index == minutesBetween(p.startingDT, toDT)
         IN  [p EXCEPT !.startingDT = toDT,
                       !.values = Slice(p.values, index, OpenEnd(p.values))]

-----------------------------------------------------------------------------
(* appliance.py: class Accumulator, SMART demand *)

\* math.ceil(a / b) and math.floor(a / b) for b > 0
CeilDiv(a, b) == -((-a) \div b)
FloorDiv(a, b) == a \div b

\* numpy.cumsum
cumsum(v) == [k \in 1..Len(v) |-> SumSeq(Prefix(v, k))]

\* for i in range(totalSlots - 1): if limit[i+1] < limit[i]: limit[i+1] = limit[i]
\* (i is the 1-based position of limit[i])
RECURSIVE CutForward(_, _)
CutForward(limit, i) ==
    IF i >= Len(limit) THEN limit
    ELSE CutForward(IF limit[i + 1] < limit[i]
                    THEN SetAt(limit, i + 1, limit[i]) ELSE limit, i + 1)

\* for i in reversed(range(totalSlots - 1)):
\*     if limit[i] < limit[i+1] - 1: limit[i] = limit[i+1] - 1
RECURSIVE CutBackward(_, _)
CutBackward(limit, i) ==
    IF i < 1 THEN limit
    ELSE CutBackward(IF limit[i] < limit[i + 1] - 1
                     THEN SetAt(limit, i, limit[i + 1] - 1) ELSE limit, i - 1)

\* for i in range(totalSlots): if lowerLimit[i] > i: lowerLimit[i] = i else: break
\* (slot is the 0-based index, stored at position slot + 1)
RECURSIVE CapLowerLimit(_, _)
CapLowerLimit(limit, slot) ==
    IF slot >= Len(limit) THEN limit
    ELSE IF limit[slot + 1] > slot
         THEN CapLowerLimit(SetAt(limit, slot + 1, slot), slot + 1)
         ELSE limit

\* for i in range(totalSlots): if upperLimit[i] > i + 1: upperLimit[i] = i + 1 else: break
RECURSIVE CapUpperLimit(_, _)
CapUpperLimit(limit, slot) ==
    IF slot >= Len(limit) THEN limit
    ELSE IF limit[slot + 1] > slot + 1
         THEN CapUpperLimit(SetAt(limit, slot + 1, slot + 1), slot + 1)
         ELSE limit

\* (mask).argmax() over a boolean vector: 0-based index of the first TRUE, 0 if none
ArgmaxFirst(mask) ==
    IF \E j \in 1..Len(mask) : mask[j]
    THEN (CHOOSE j \in 1..Len(mask) : mask[j] /\ \A i \in 1..(j - 1) : ~mask[i]) - 1
    ELSE 0

\* v[from:] -= 1 (from is 0-based)
DecrementFrom(v, from) == [j \in 1..Len(v) |-> IF j - 1 >= from THEN v[j] - 1 ELSE v[j]]

\* "for slot in cheapestOrder", from the i-th entry of the order on
RECURSIVE GreedyLoop(_, _, _)
GreedyLoop(g, cheapestOrder, i) ==
    LET
        \* one pass of the body of "for slot in cheapestOrder", on
        \* g = [lowerLimit, upperLimit, chargingProfile] (limits with the leading 0)
        GreedyStep(slot) ==
         LET lowerLimit == g.lowerLimit
             upperLimit == g.upperLimit
             last == lowerLimit[Len(lowerLimit)]
         IN  IF lowerLimit[slot + 1] < upperLimit[slot + 2] /\ lowerLimit[slot + 1] < last
             THEN LET lowerSlot == ArgmaxFirst([j \in 1..Len(lowerLimit) |-> lowerLimit[j] > lowerLimit[slot + 1]])
                      upperSlot == ArgmaxFirst([j \in 1..Len(upperLimit) |-> upperLimit[j] = upperLimit[slot + 2]])
                  IN  [lowerLimit |-> DecrementFrom(lowerLimit, lowerSlot),
                       upperLimit |-> DecrementFrom(upperLimit, upperSlot),
                       chargingProfile |-> SetAt(g.chargingProfile, slot + 1, 1)]
             ELSE g
    IN
    IF i > Len(cheapestOrder) THEN g
    ELSE GreedyLoop(GreedyStep(cheapestOrder[i]), cheapestOrder, i + 1)

\* the chargingProfile computed by Accumulator.calculateSmartDemand for the
\* slots of [fromDT, toDT + endMargin); cheapestOrder holds 0-based slots
SmartChargingProfile(startingCharge, capacity, chargingRate, dischargingRates, cheapestOrder) ==
    LET
        \* the upper limit, likewise
        PreparedUpperLimit(dischargingSum) ==
            LET totalSlots == Len(dischargingSum)
                raw == [k \in 1..totalSlots |->
                          Min(FloorDiv(capacity - startingCharge + dischargingSum[k], chargingRate),
                              totalSlots)]
            IN  CapUpperLimit(CutBackward(CutForward(raw, 1), totalSlots - 1), 0)
    IN
    LET
        \* the lower limit of the number of charged slots after each slot, as prepared
        \* before the greedy loop (without the leading 0)
        PreparedLowerLimit(dischargingSum) ==
            LET totalSlots == Len(dischargingSum)
                raw == [k \in 1..totalSlots |->
                          Max(CeilDiv(0 - startingCharge + dischargingSum[k], chargingRate), 0)]
            IN  CapLowerLimit(CutBackward(CutForward(raw, 1), totalSlots - 1), 0)
    IN
    LET totalSlots == Len(dischargingRates)
        dischargingSum == cumsum(dischargingRates)
        lower == PreparedLowerLimit(dischargingSum)
        upper == PreparedUpperLimit(dischargingSum)
    IN  GreedyLoop([lowerLimit |-> <<0>> \o lower,
                    upperLimit |-> <<0>> \o upper,
                    chargingProfile |-> Zeros(totalSlots)],
                   cheapestOrder, 1).chargingProfile

\* argsort of the prices halved and truncated, which ties prices that differ
CoarseArgSorts(priceProfile) ==
    LET n == Len(priceProfile)
    IN  {o \in [1..n -> 0..(n - 1)] :
            /\ \A i \in 1..n, j \in 1..n : i # j => o[i] # o[j]
            /\ \A i \in 1..(n - 1) :
                  priceProfile[o[i] + 1] \div 2 <= priceProfile[o[i + 1] + 1] \div 2}

\* the orders numpy.argsort may return for the prices: every permutation of the
\* 0-based slots along which the price never decreases
ArgSorts(priceProfile) ==
    LET n == Len(priceProfile)
    IN  {o \in [1..n -> 0..(n - 1)] :
            /\ \A i \in 1..n, j \in 1..n : i # j => o[i] # o[j]
            /\ \A i \in 1..(n - 1) : priceProfile[o[i] + 1] <= priceProfile[o[i + 1] + 1]}

\* a smart charge that counts the slots of the look-ahead day too
SmartChargeWithLookAhead(startingCharge, chargingRate, dischargingRates, chargingProfile, wantedSlots) ==
    startingCharge - cumsum(dischargingRates)[wantedSlots] + SumSeq(chargingProfile) * chargingRate

\* memory.smart.currentCharge after calculateSmartDemand
SmartChargeAfter(startingCharge, chargingRate, dischargingRates, chargingProfile, wantedSlots) ==
    startingCharge - cumsum(dischargingRates)[wantedSlots]
        + SumSeq(Prefix(chargingProfile, wantedSlots)) * chargingRate

-----------------------------------------------------------------------------
(* appliance.py: class Battery *)

\* the 60 of "chargingPower / 60": power is energy per hour, a slot is a minute
MinutesPerHour == 60

\* math.ceil(chargeNeeded / chargePerSlot)
SlotsToChargeCompletely(chargeNeeded, chargePerSlot) == CeilDiv(chargeNeeded, chargePerSlot)

\* the last slot charging at full power instead of completing the charge
FullLastSlotPower(chargeNeeded, chargePerSlot, slots) == chargePerSlot * MinutesPerHour

\* lastSlotCharge * 60, the power of the slot that completes the charge
LastSlotPower(chargeNeeded, chargePerSlot, slots) ==
    (chargeNeeded - chargePerSlot * (slots - 1)) * MinutesPerHour

\* powerProfile[a:b] = power on a copy
FillSlice(powerProfile, a, b, power) == SetSlice(powerProfile, a, b, <<power>>).values

\* powerProfile[slots] = power for a set of 0-based slots
FillSlots(powerProfile, slots, power) ==
    [j \in 1..Len(powerProfile) |-> IF (j - 1) \in slots THEN power ELSE powerProfile[j]]

\* the powerProfile of one day of Battery.calculateSmartDemand; b holds
\* chargePerSlot, chargeNeeded, connectionSlot, disconnectionSlot; cheapest is
\* the outcome of argpartition on priceProfile[connectionSlot:disconnectionSlot]
BatterySmartProfile(day, b, cheapest) ==
    LET chargingPower == b.chargePerSlot * MinutesPerHour
        slots == SlotsToChargeCompletely(b.chargeNeeded, b.chargePerSlot)
        powerProfile == Zeros(2 * day)
    IN  IF slots > 0
        THEN IF b.disconnectionSlot - b.connectionSlot <= slots
             THEN FillSlice(powerProfile, b.connectionSlot, b.disconnectionSlot, chargingPower)
             ELSE LET cheapestSlots == {i + b.connectionSlot : i \in cheapest.slots}
                      lastSlot == cheapest.last + b.connectionSlot
                  IN  FillSlots(FillSlots(powerProfile, cheapestSlots \ {lastSlot}, chargingPower),
                                {lastSlot},
                                LastSlotPower(b.chargeNeeded, b.chargePerSlot, slots))
        ELSE powerProfile

\* the powerProfile of one day of Battery.calculateUncontrolledDemand
BatteryUncontrolledProfile(day, b) ==
    LET chargingPower == b.chargePerSlot * MinutesPerHour
        slots == SlotsToChargeCompletely(b.chargeNeeded, b.chargePerSlot)
        powerProfile == Zeros(2 * day)
    IN  IF slots > 0
        THEN IF b.disconnectionSlot - b.connectionSlot < slots
             THEN FillSlice(powerProfile, b.connectionSlot, b.disconnectionSlot, chargingPower)
             ELSE FillSlots(FillSlice(powerProfile, b.connectionSlot,
                                      b.connectionSlot + slots - 1, chargingPower),
                            {b.connectionSlot + slots},
                            LastSlotPower(b.chargeNeeded, b.chargePerSlot, slots))
        ELSE powerProfile

\* SPREAD-OUT charging at full power also on a day with exactly as many
\* connected slots as the charge needs
SpreadOutFullWhenJustEnough(day, b) ==
    LET chargingPower == b.chargePerSlot * MinutesPerHour
        slots == SlotsToChargeCompletely(b.chargeNeeded, b.chargePerSlot)
        powerProfile == Zeros(2 * day)
    IN  IF slots > 0
        THEN IF b.disconnectionSlot - b.connectionSlot <= slots
             THEN FillSlice(powerProfile, b.connectionSlot, b.disconnectionSlot, chargingPower)
             ELSE FillSlice(powerProfile, b.connectionSlot, b.disconnectionSlot,
                            FloorDiv(b.chargeNeeded * MinutesPerHour,
                                     b.disconnectionSlot - b.connectionSlot))
        ELSE powerProfile

\* the powerProfile of one day of Battery.calculateSpreadOutDemand; the
\* constant power chargeNeeded / ((disconnectionSlot - connectionSlot) / 60)
\* is rounded down to a whole unit
BatterySpreadOutProfile(day, b) ==
    LET chargingPower == b.chargePerSlot * MinutesPerHour
        slots == SlotsToChargeCompletely(b.chargeNeeded, b.chargePerSlot)
        powerProfile == Zeros(2 * day)
    IN  IF slots > 0
        THEN IF b.disconnectionSlot - b.connectionSlot < slots
             THEN FillSlice(powerProfile, b.connectionSlot, b.disconnectionSlot, chargingPower)
             ELSE FillSlice(powerProfile, b.connectionSlot, b.disconnectionSlot,
                            FloorDiv(b.chargeNeeded * MinutesPerHour,
                                     b.disconnectionSlot - b.connectionSlot))
        ELSE powerProfile

\* SMART reads the prices only on a day with more slots than the charge needs
ReadsPrices(b) ==
    LET slots == SlotsToChargeCompletely(b.chargeNeeded, b.chargePerSlot)
    IN  slots > 0 /\ ~(b.disconnectionSlot - b.connectionSlot <= slots)

\* the outcomes of argpartition SMART can see for the 2-day priceProfile
SmartChoices(b, priceProfile) ==
    LET
        \* what numpy.argpartition(window, k)[:k] may hold: k distinct 0-based indices
        \* none of which has a value above a value left out, in any order; of the
        \* order only the last index matters to the caller
        CheapestSlotChoices(window, k) ==
            LET all == 0..(Len(window) - 1)
            IN  {c \in [slots : SUBSET all, last : all] :
                    /\ Cardinality(c.slots) = k
                    /\ c.last \in c.slots
                    /\ \A i \in c.slots, j \in all \ c.slots : window[i + 1] <= window[j + 1]}
    IN
    IF ReadsPrices(b)
    THEN CheapestSlotChoices(Slice(priceProfile, b.connectionSlot, b.disconnectionSlot), SlotsToChargeCompletely(b.chargeNeeded, b.chargePerSlot))
    ELSE {[slots |-> {}, last |-> 0]}

-----------------------------------------------------------------------------
(* appliance.py: class Accumulator, its three policies over a tick *)

\* a = [currentDT, chargingPower, capacity, priceProfile, dischargingProfile,
\*      smartDemand, uncontrolledDemand, spreadOutDemand,
\*      smart, uncontrolled, spreadOut (memory), error]
\* chargingRate = self.chargingPower / 60
ChargingRate(a) == a.chargingPower \div MinutesPerHour

\* dischargingProfile.get(fromDT, toDT) / 60: [error, res]
DischargingRates(a, fromDT, toDT) ==
    LET got == ProfileGet(a.dischargingProfile, fromDT, toDT)
    IN  [error |-> got.error,
         res |-> [k \in 1..Len(got.res) |-> got.res[k] \div MinutesPerHour]]

\* Accumulator.calculateSmartDemand(fromDT, toDT) with the order argsort gave
AccumulatorSmartDemand(a, fromDT, toDT, cheapestOrder) ==
    LET wantedSlots == minutesBetween(fromDT, toDT)
        Saved(rates, chargingProfile, set) ==
            [a EXCEPT !.smart.currentCharge =
                          SmartChargeAfter(a.smart.currentCharge, ChargingRate(a), rates,
                                           chargingProfile, wantedSlots),
                      !.smartDemand = set.p,
                      !.error = @ \/ set.error]
        Charged(rates, chargingProfile) ==
            Saved(rates, chargingProfile,
                  ProfileSet(a.smartDemand, fromDT,
                             [k \in 1..wantedSlots |-> chargingProfile[k] * a.chargingPower]))
        Plan(rates) ==
            IF rates.error THEN [a EXCEPT !.error = TRUE]
            ELSE Charged(rates.res,
                         SmartChargingProfile(a.smart.currentCharge, a.capacity,
                                              ChargingRate(a), rates.res, cheapestOrder))
    IN  Plan(DischargingRates(a, fromDT, toDT + oneDay))

\* an appliance that also turns on when that fills it exactly
UncontrolledOnUpToFull(charge, chargingRate, upperLimit) == charge + chargingRate <= upperLimit

\* "if charge + chargingRate < upperLimit" on the charge left after the discharge
UncontrolledOn(charge, chargingRate, upperLimit) == charge + chargingRate < upperLimit

\* "for slot in range(totalSlots)" of calculateUncontrolledDemand from the slot-th
\* minute on (1-based), on s = [charge, powerProfile]
RECURSIVE UncontrolledLoop(_, _, _, _, _, _)
UncontrolledLoop(s, dischargingRates, chargingRate, chargingPower, upperLimit, slot) ==
    IF slot > Len(dischargingRates) THEN s
    ELSE UncontrolledLoop(
            IF UncontrolledOn(s.charge - dischargingRates[slot], chargingRate, upperLimit)
            THEN [charge |-> s.charge - dischargingRates[slot] + chargingRate,
                  powerProfile |-> SetAt(s.powerProfile, slot, chargingPower)]
            ELSE [s EXCEPT !.charge = s.charge - dischargingRates[slot]],
            dischargingRates, chargingRate, chargingPower, upperLimit, slot + 1)

\* Accumulator.calculateUncontrolledDemand(fromDT, toDT)
AccumulatorUncontrolledDemand(a, fromDT, toDT) ==
    LET Saved(s, set) ==
            [a EXCEPT !.uncontrolled.currentCharge = s.charge,
                      !.uncontrolledDemand = set.p,
                      !.error = @ \/ set.error]
        Simulated(s) == Saved(s, ProfileSet(a.uncontrolledDemand, fromDT, s.powerProfile))
        Over(rates) ==
            IF rates.error THEN [a EXCEPT !.error = TRUE]
            ELSE Simulated(UncontrolledLoop(
                     [charge |-> a.uncontrolled.currentCharge,
                      powerProfile |-> Zeros(minutesBetween(fromDT, toDT))],
                     rates.res, ChargingRate(a), a.chargingPower, a.capacity, 1))
    IN  Over(DischargingRates(a, fromDT, toDT))

\* a thermostat that turns on only below the lower limit
SpreadOutChargingBelowLimit(charging, charge, chargingRate, lowerLimit, upperLimit) ==
    IF charging THEN ~(charge + chargingRate > upperLimit) ELSE charge < lowerLimit

\* the charging flag after the toggle of one minute, on the charge left after
\* the discharge
SpreadOutCharging(charging, charge, chargingRate, lowerLimit, upperLimit) ==
    IF charging
    THEN (IF charge + chargingRate > upperLimit THEN FALSE ELSE charging)
    ELSE (IF charge <= lowerLimit THEN TRUE ELSE charging)

\* "for slot in range(totalSlots)" of calculateSpreadOutDemand from the slot-th
\* minute on (1-based), on s = [charge, charging, powerProfile]
RECURSIVE SpreadOutLoop(_, _, _, _, _, _)
SpreadOutLoop(s, dischargingRates, chargingRate, chargingPower, upperLimit, slot) ==
    LET Stepped(charge, charging) ==
            IF charging
            THEN [charge |-> charge + chargingRate, charging |-> charging,
                  powerProfile |-> SetAt(s.powerProfile, slot, chargingPower)]
            ELSE [charge |-> charge, charging |-> charging,
                  powerProfile |-> s.powerProfile]
    IN  IF slot > Len(dischargingRates) THEN s
        ELSE SpreadOutLoop(
                Stepped(s.charge - dischargingRates[slot],
                        SpreadOutCharging(s.charging, s.charge - dischargingRates[slot],
                                          chargingRate, 0, upperLimit)),
                dischargingRates, chargingRate, chargingPower, upperLimit, slot + 1)

\* Accumulator.calculateSpreadOutDemand(fromDT, toDT)
AccumulatorSpreadOutDemand(a, fromDT, toDT) ==
    LET Saved(s, set) ==
            [a EXCEPT !.spreadOut = [currentCharge |-> s.charge, charging |-> s.charging],
                      !.spreadOutDemand = set.p,
                      !.error = @ \/ set.error]
        Simulated(s) == Saved(s, ProfileSet(a.spreadOutDemand, fromDT, s.powerProfile))
        Over(rates) ==
            IF rates.error THEN [a EXCEPT !.error = TRUE]
            ELSE Simulated(SpreadOutLoop(
                     [charge |-> a.spreadOut.currentCharge,
                      charging |-> a.spreadOut.charging,
                      powerProfile |-> Zeros(minutesBetween(fromDT, toDT))],
                     rates.res, ChargingRate(a), a.chargingPower, a.capacity, 1))
    IN  Over(DischargingRates(a, fromDT, toDT))

\* Accumulator.tick and the Appliance.tick it calls; usage is what
\* usageStatistics.dischargingProfile.get * dischargingProfileScale gives for the
\* day after the next, cheapestOrder what argsort gives in calculateSmartDemand
AccumulatorTick(a, usage, cheapestOrder) ==
    LET pruneDT == a.currentDT - oneDay
        Generated(pruned, set) ==
            [pruned EXCEPT !.dischargingProfile = set.p, !.error = @ \/ set.error]
        GenerateUsage(pruned) ==
            Generated(pruned, ProfileSet(pruned.dischargingProfile, a.currentDT + oneDay, usage))
        CalculateDemand(generated) ==
            AccumulatorSpreadOutDemand(
                AccumulatorUncontrolledDemand(
                    AccumulatorSmartDemand(generated, a.currentDT, a.currentDT + oneDay,
                                           cheapestOrder),
                    a.currentDT, a.currentDT + oneDay),
                a.currentDT, a.currentDT + oneDay)
        MovedAhead(calculated) == [calculated EXCEPT !.currentDT = @ + oneDay]
    IN  MovedAhead(CalculateDemand(GenerateUsage(
            [a EXCEPT !.dischargingProfile = ProfilePrune(@, pruneDT),
                      !.priceProfile = ProfilePrune(@, pruneDT),
                      !.smartDemand = ProfilePrune(@, pruneDT),
                      !.uncontrolledDemand = ProfilePrune(@, pruneDT),
                      !.spreadOutDemand = ProfilePrune(@, pruneDT)])))

-----------------------------------------------------------------------------
(* connection.py: Connection.generateRandomCheaperIntervals *)

\* the 0-based positions numpy.random.choice(probs.size, p=probs) can return
PositivePositions(probs) == {i \in 0..(Len(probs) - 1) : probs[i + 1] > 0}

\* cheaperIntervals[positions] = 1
MarkPositions(cheaperIntervals, positions) == FillSlots(cheaperIntervals, positions, 1)

\* one pass of the while loop: an interval of cheapIntervalLength minutes whose
\* start is minutesIn(shift) + position - cheapIntervalLength // 2
PlaceInterval(cheaperIntervals, cheapIntervalLength, position) ==
    LET cheapIntervalStart == cheapIntervalLength + position - (cheapIntervalLength \div 2)
    IN  FillSlice(cheaperIntervals, cheapIntervalStart,
                  cheapIntervalStart + cheapIntervalLength, 1)

\* "while numpy.sum(cheaperIntervals) < cheapMinutesTotal" run to its end: the
\* buffers it can leave.  A pass that samples a position whose interval is
\* already cheap leaves the buffer as it was, so only the passes that change
\* it are followed; the set is empty when no pass can raise the sum, and the
\* loop never ends
RECURSIVE PlacedIntervals(_, _, _, _)
PlacedIntervals(cheaperIntervals, positions, cheapIntervalLength, cheapMinutesTotal) ==
    IF SumSeq(cheaperIntervals) >= cheapMinutesTotal THEN {cheaperIntervals}
    ELSE UNION {PlacedIntervals(placed, positions, cheapIntervalLength, cheapMinutesTotal) :
                   placed \in {PlaceInterval(cheaperIntervals, cheapIntervalLength, position) :
                                  position \in positions} \ {cheaperIntervals}}

\* the branch cheapIntervalLength == 1: cheapMinutesTotal positions drawn
\* without replacement, cheaperIntervals[cheapMinutePositions] = 1
MarkedMinutes(cheaperIntervals, positions, cheapMinutesTotal) ==
    {MarkPositions(cheaperIntervals, cheapMinutePositions) :
        cheapMinutePositions \in {ps \in SUBSET positions : Cardinality(ps) = cheapMinutesTotal}}

\* the number of minutes of a vector of cheaperMinutesProfile that are cheap
\* (generatePriceProfile: numpy.minimum(..., 1).astype(bool))
CheapMinutes(v) == Cardinality({i \in 1..Len(v) : v[i] > 0})

-----------------------------------------------------------------------------
(* utils.py, priceConfig.py: what the whole simulation shares *)

\* 0.5 * oneDay
halfDay == oneDay \div 2

\* priceConfig.lowerPrice and priceConfig.higherPrice, in price units
LowerPrice == 1
HigherPrice == 2

\* utils.midnightsBetween(startDT, endDT), as a set; a midnight is a multiple of oneDay
MidnightsBetween(startDT, endDT) ==
    LET first == (startDT \div oneDay) * oneDay
        count == Max((endDT - first) \div oneDay + 1, 0)
    IN  (IF startDT = first THEN {startDT} ELSE {})
            \cup {m \in {first + k * oneDay : k \in 1..count} : m < endDT}

\* the earliest of a non-empty set of datetimes
Earliest(dts) == CHOOSE m \in dts : \A n \in dts : m <= n

-----------------------------------------------------------------------------
(* appliance.py: a Battery as one of the appliances of a House *)

\* what usageStatistics.randomUsageInterval and randomNeededCharge return for a
\* date: the car leaves in the last minute of the day, is back in the first
\* one, and needs no charge or a charge of one slot and a half
SimUsages ==
    {[disconnectionTime |-> oneDay - 1, connectionTime |-> 0, chargeNeeded |-> need] :
        need \in {0, 6}}

\* Battery(chargingPower): chargePerSlot is chargingPower / 60
NewBattery ==
    [currentDT |-> 0, chargePerSlot |-> 4, usages |-> <<>>,
     priceProfile |-> EmptyProfile, smartDemand |-> EmptyProfile,
     uncontrolledDemand |-> EmptyProfile, spreadOutDemand |-> EmptyProfile]

\* Battery.generateUsage(fromDT, toDT): the memory.usages it can leave; a date
\* that has a usage keeps it
GenerateUsageOutcomes(usages, fromDT, toDT) ==
    LET dates == DOMAIN usages \cup MidnightsBetween(fromDT, toDT + oneDay)
    IN  {u \in [dates -> SimUsages] : \A d \in DOMAIN usages : u[d] = usages[d]}

\* what the three calculations read of memory.usages for the day at midnight
UsageOfDay(chargePerSlot, usages, midnight) ==
    [chargePerSlot |-> chargePerSlot,
     chargeNeeded |-> usages[midnight].chargeNeeded,
     connectionSlot |-> usages[midnight].connectionTime,
     disconnectionSlot |-> oneDay + usages[midnight + oneDay].disconnectionTime]

\* Appliance.setUp(dt) of a Battery, with the usages generateUsage left
ApplianceSetUp(a, dt, usages) == [a EXCEPT !.currentDT = dt, !.usages = usages]

\* the prices Battery.calculateSmartDemand finds for the day the tick plans,
\* after the pruning of the tick: [error, res]
PricesAtTick(a) ==
    ProfileGet(ProfilePrune(a.priceProfile, a.currentDT - oneDay),
               a.currentDT, a.currentDT + 2 * oneDay)

\* the outcomes of argpartition the tick of a can see once usages are generated
TickChoices(a, usages) ==
    LET
        \* the outcomes of argpartition for the prices read ([error, res])
        ChoicesFor(b, prices) ==
            IF prices.error THEN {[slots |-> {}, last |-> 0]} ELSE SmartChoices(b, prices.res)
    IN
    ChoicesFor(UsageOfDay(a.chargePerSlot, usages, a.currentDT), PricesAtTick(a))

\* a tick that adds the profiles of its day at the midnight before, over the
\* day the House has aggregated
ApplianceTickADayEarlier(a, usages, cheapest) ==
    LET
        \* the appliance after its tick; raised tells whether reading the prices
        \* raised, smart, uncontrolled and spreadOut are what the three calculations
        \* left of the demands (each [error, p])
        ApplianceTicked(raised, smart, uncontrolled, spreadOut) ==
            [error |-> raised \/ smart.error \/ uncontrolled.error \/ spreadOut.error,
             a |-> [a EXCEPT !.priceProfile = ProfilePrune(a.priceProfile, a.currentDT - oneDay),
                  !.usages = usages,
                  !.smartDemand = smart.p,
                  !.uncontrolledDemand = uncontrolled.p,
                  !.spreadOutDemand = spreadOut.p,
                  !.currentDT = a.currentDT + oneDay]]
    IN
    LET cdt == a.currentDT
        b == UsageOfDay(a.chargePerSlot, usages, cdt)
    IN  ApplianceTicked(ReadsPrices(b) /\ PricesAtTick(a).error, ProfileAdd(ProfilePrune(a.smartDemand, cdt - oneDay), cdt - oneDay,
                       BatterySmartProfile(oneDay, b, cheapest)), ProfileAdd(ProfilePrune(a.uncontrolledDemand, cdt - oneDay), cdt - oneDay,
                       BatteryUncontrolledProfile(oneDay, b)), ProfileAdd(ProfilePrune(a.spreadOutDemand, cdt - oneDay), cdt - oneDay,
                       BatterySpreadOutProfile(oneDay, b)))

\* Appliance.tick of a Battery: prune, generateUsage (usages is what it left),
\* calculateDemand for [currentDT, currentDT + oneDay), then the clock: [error, a]
ApplianceTick(a, usages, cheapest) ==
    LET
        \* the appliance after its tick; raised tells whether reading the prices
        \* raised, smart, uncontrolled and spreadOut are what the three calculations
        \* left of the demands (each [error, p])
        ApplianceTicked(raised, smart, uncontrolled, spreadOut) ==
            [error |-> raised \/ smart.error \/ uncontrolled.error \/ spreadOut.error,
             a |-> [a EXCEPT !.priceProfile = ProfilePrune(a.priceProfile, a.currentDT - oneDay),
                  !.usages = usages,
                  !.smartDemand = smart.p,
                  !.uncontrolledDemand = uncontrolled.p,
                  !.spreadOutDemand = spreadOut.p,
                  !.currentDT = a.currentDT + oneDay]]
    IN
    LET cdt == a.currentDT
        b == UsageOfDay(a.chargePerSlot, usages, cdt)
    IN  ApplianceTicked(ReadsPrices(b) /\ PricesAtTick(a).error, ProfileAdd(ProfilePrune(a.smartDemand, cdt - oneDay), cdt,
                       BatterySmartProfile(oneDay, b, cheapest)), ProfileAdd(ProfilePrune(a.uncontrolledDemand, cdt - oneDay), cdt,
                       BatteryUncontrolledProfile(oneDay, b)), ProfileAdd(ProfilePrune(a.spreadOutDemand, cdt - oneDay), cdt,
                       BatterySpreadOutProfile(oneDay, b)))

-----------------------------------------------------------------------------
(* appliance.py: class Machine *)

\* numpy.dot of two vectors of the same length
RECURSIVE DotFrom(_, _, _)
DotFrom(u, w, i) ==
    IF i > Len(u) THEN 0 ELSE u[i] * w[i] + DotFrom(u, w, i + 1)

\* usage is None: the appliance is not used that day
None == <<>>

\* math.inf as the first cheapestPrice: no price found yet
MathInf == <<>>

\* slotPrice <= cheapestPrice: a later slot of the same price replaces the earlier one
NotDearer(slotPrice, cheapestPrice) ==
    cheapestPrice = MathInf \/ slotPrice <= cheapestPrice[1]

\* slotPrice < cheapestPrice
IsCheaper(slotPrice, cheapestPrice) ==
    cheapestPrice = MathInf \/ slotPrice < cheapestPrice[1]

\* the price of the run when it starts at startingSlot
SlotPrice(powerUsageProfile, priceProfile, startingSlot) ==
    LET
        Dot(u, w) == DotFrom(u, w, 1)
    IN
    Dot(powerUsageProfile, Slice(priceProfile, startingSlot, startingSlot + Len(powerUsageProfile)))

\* for startingSlot in range(startingSlot, stop): keep the cheapest slot so far
RECURSIVE CheapestFrom(_, _, _, _, _, _)
CheapestFrom(powerUsageProfile, priceProfile, startingSlot, stop, cheapestSlot, cheapestPrice) ==
    IF startingSlot >= stop
    THEN cheapestSlot
    ELSE IF IsCheaper(SlotPrice(powerUsageProfile, priceProfile, startingSlot),
                      cheapestPrice)
         THEN CheapestFrom(powerUsageProfile, priceProfile, startingSlot + 1, stop,
                  startingSlot,
                  <<SlotPrice(powerUsageProfile, priceProfile, startingSlot)>>)
         ELSE CheapestFrom(powerUsageProfile, priceProfile, startingSlot + 1, stop,
                  cheapestSlot, cheapestPrice)

\* the slots of a usage record ((startAfter, finishBy), powerUsageProfile)
StartAfterSlot(usage) == usage.startAfter
FinishBySlot(day, usage) == usage.finishBy + day
Runtime(usage) == Len(usage.powerUsageProfile)

\* a search that leaves out its first candidate, startAfterSlot
LateSmartSlot(day, usage, priceProfile) ==
    IF FinishBySlot(day, usage) - StartAfterSlot(usage) > Runtime(usage) + 1
    THEN CheapestFrom(usage.powerUsageProfile, priceProfile,
                      StartAfterSlot(usage) + 1,
                      FinishBySlot(day, usage) - Runtime(usage),
                      StartAfterSlot(usage), MathInf)
    ELSE StartAfterSlot(usage)

\* cheapestSlot of Machine.calculateSmartDemand
MachineSmartSlot(day, usage, priceProfile) ==
    IF FinishBySlot(day, usage) - StartAfterSlot(usage) > Runtime(usage)
    THEN CheapestFrom(usage.powerUsageProfile, priceProfile,
                      StartAfterSlot(usage),
                      FinishBySlot(day, usage) - Runtime(usage),
                      StartAfterSlot(usage), MathInf)
    ELSE StartAfterSlot(usage)

\* the slot Machine.calculateUncontrolledDemand starts the run at
MachineUncontrolledSlot(usage) == StartAfterSlot(usage)

\* startingSlot of Machine.calculateSpreadOutDemand
MachineSpreadOutSlot(day, usage) ==
    StartAfterSlot(usage)
    + Max(0, FloorDiv(FinishBySlot(day, usage) - StartAfterSlot(usage)
                      - Runtime(usage), 2))

\* powerProfile = zeros(2 * day); powerProfile[slot:slot+runtime] = powerUsageProfile
\* (usage None leaves the zeros)
MachinePowerProfile(day, usage, slot) ==
    IF usage = None
    THEN [error |-> FALSE, values |-> Zeros(2 * day)]
    ELSE SetSlice(Zeros(2 * day), slot, slot + Runtime(usage),
                  usage.powerUsageProfile)

-----------------------------------------------------------------------------
(* house.py: class House, with one appliance *)

\* House() with one Car added
NewHouse ==
    [currentDT |-> 0, priceProfile |-> EmptyProfile, smartDemand |-> EmptyProfile,
     uncontrolledDemand |-> EmptyProfile, spreadOutDemand |-> EmptyProfile,
     appliance |-> NewBattery]

\* House.setUp(dt)
HouseSetUp(hs, dt, usages) ==
    [hs EXCEPT !.currentDT = dt, !.appliance = ApplianceSetUp(hs.appliance, dt, usages)]

\* House.setPriceProfile(dt, prices): [error, house]
HouseSetPriceProfile(hs, dt, prices) ==
    LET
        \* the house once its priceProfile and that of its appliance are set; own and
        \* app are what the two calls of Profile.set left ([error, p])
        HousePricesSet(own, app) ==
        [error |-> own.error \/ app.error,
         house |-> [hs EXCEPT !.priceProfile = own.p,
                              !.appliance = [hs.appliance EXCEPT !.priceProfile = app.p]]]
    IN
    HousePricesSet(ProfileSet(hs.priceProfile, dt, prices), ProfileSet(hs.appliance.priceProfile, dt, prices))

\* an outcome [error, p] that has also failed when error holds
WithError(error, outcome) == [error |-> error \/ outcome.error, p |-> outcome.p]

\* the demand of the appliance replacing what the house has, instead of adding to it
SetApplianceDemand(houseProfile, fromDT, demand) ==
    WithError(demand.error, ProfileSet(houseProfile, fromDT, demand.res))

\* one demand of House.collectApplianceDemand: what the appliance returned
\* ([error, res]) is added to the Profile of the house: [error, p]
AddApplianceDemand(houseProfile, fromDT, demand) ==
    WithError(demand.error, ProfileAdd(houseProfile, fromDT, demand.res))

\* House.tick: prune, the tick of the appliance, the clock, then
\* collectApplianceDemand: [error, house]
HouseTick(hs, usages, cheapest) ==
    LET
        \* the end of House.tick, once the appliance has ticked: the clock, then
        \* collectApplianceDemand(currentDT - oneDay, currentDT)
        CollectApplianceDemand(app) ==
        LET
            \* the house after its tick; app is its ticked appliance ([error, a]), smart,
            \* uncontrolled and spreadOut are the demands collected (each [error, p])
            HouseTicked(smart, uncontrolled, spreadOut) ==
                [error |-> app.error \/ smart.error \/ uncontrolled.error \/ spreadOut.error,
                 house |-> [hs EXCEPT !.priceProfile = ProfilePrune(hs.priceProfile, hs.currentDT - oneDay),
                             !.appliance = app.a,
                             !.currentDT = hs.currentDT + oneDay,
                             !.smartDemand = smart.p,
                             !.uncontrolledDemand = uncontrolled.p,
                             !.spreadOutDemand = spreadOut.p]]
        IN
        LET pruneDT == hs.currentDT - oneDay
            fromDT == hs.currentDT
            toDT == hs.currentDT + oneDay
        IN  HouseTicked(AddApplianceDemand(ProfilePrune(hs.smartDemand, pruneDT), fromDT,
                                   ProfileGet(app.a.smartDemand, fromDT, toDT)), AddApplianceDemand(ProfilePrune(hs.uncontrolledDemand, pruneDT), fromDT,
                                   ProfileGet(app.a.uncontrolledDemand, fromDT, toDT)), AddApplianceDemand(ProfilePrune(hs.spreadOutDemand, pruneDT), fromDT,
                                   ProfileGet(app.a.spreadOutDemand, fromDT, toDT)))
    IN
    CollectApplianceDemand(ApplianceTick(hs.appliance, usages, cheapest))

-----------------------------------------------------------------------------
(* house.py: class House, with any number of appliances *)

\* House() with the Cars added
NewHome(appliances) ==
    [currentDT |-> 0, priceProfile |-> EmptyProfile, smartDemand |-> EmptyProfile,
     uncontrolledDemand |-> EmptyProfile, spreadOutDemand |-> EmptyProfile,
     appliances |-> appliances]

\* what Appliance.tick of a Battery can leave: [error, a]
ApplianceTickOutcomes(a) ==
    UNION {{ApplianceTick(a, usages, cheapest) : cheapest \in TickChoices(a, usages)} :
              usages \in GenerateUsageOutcomes(a.usages, a.currentDT + oneDay,
                                               a.currentDT + 2 * oneDay)}

\* House.collectApplianceDemand(fromDT, toDT) from appliance i on
RECURSIVE CollectAll(_, _, _, _, _)
CollectAll(ds, appliances, i, fromDT, toDT) ==
    LET
        \* one round of the loop of House.collectApplianceDemand: the demands of
        \* appliance a over [fromDT, toDT) are added to those of the house
        CollectOne(a) ==
            LET
                \* the three demands once those of one appliance are added (each [error, p])
                DemandsAdded(error, smart, uncontrolled, spreadOut) ==
                    [error |-> error \/ smart.error \/ uncontrolled.error \/ spreadOut.error,
                     smartDemand |-> smart.p, uncontrolledDemand |-> uncontrolled.p,
                     spreadOutDemand |-> spreadOut.p]
            IN
            DemandsAdded(ds.error, AddApplianceDemand(ds.smartDemand, fromDT,
                 ProfileGet(a.smartDemand, fromDT, toDT)), AddApplianceDemand(ds.uncontrolledDemand, fromDT,
                 ProfileGet(a.uncontrolledDemand, fromDT, toDT)), AddApplianceDemand(ds.spreadOutDemand, fromDT,
                 ProfileGet(a.spreadOutDemand, fromDT, toDT)))
    IN
    IF i > Len(appliances) \/ ds.error THEN ds
    ELSE CollectAll(CollectOne(appliances[i]), appliances, i + 1,
                    fromDT, toDT)

\* House.tick, given what the ticks of its appliances left: [error, house]
HomeTick(hm, ticked) ==
    LET
        \* the three demands of a House while collectApplianceDemand runs
        HomeDemands(hm_) ==
             [error |-> FALSE, smartDemand |-> hm_.smartDemand,
              uncontrolledDemand |-> hm_.uncontrolledDemand, spreadOutDemand |-> hm_.spreadOutDemand]
    IN
    LET
        \* the house with its own demands pruned, as House.tick starts
        HomePruned ==
        [hm EXCEPT !.smartDemand = ProfilePrune(hm.smartDemand, hm.currentDT - oneDay),
                   !.uncontrolledDemand = ProfilePrune(hm.uncontrolledDemand, hm.currentDT - oneDay),
                   !.spreadOutDemand = ProfilePrune(hm.spreadOutDemand, hm.currentDT - oneDay)]
    IN
    LET
        \* the house after its tick; ticked[i] is what the tick of appliance i left
        \* ([error, a]) and ds the demands collected
        HomeTicked(ds) ==
            [error |-> ds.error \/ \E i \in DOMAIN ticked : ticked[i].error,
             house |-> [hm EXCEPT !.priceProfile = ProfilePrune(hm.priceProfile, hm.currentDT - oneDay),
                      !.appliances = [i \in DOMAIN ticked |-> ticked[i].a],
                      !.currentDT = hm.currentDT + oneDay,
                      !.smartDemand = ds.smartDemand,
                      !.uncontrolledDemand = ds.uncontrolledDemand,
                      !.spreadOutDemand = ds.spreadOutDemand]]
    IN
    HomeTicked(CollectAll(HomeDemands(HomePruned), [i \in DOMAIN ticked |-> ticked[i].a],
                          1, hm.currentDT, hm.currentDT + oneDay))

\* House.setPriceProfile(dt, prices) of a house with several appliances
HomeSetPriceProfile(hm, dt, prices) ==
    LET
        \* the house once its priceProfile and those of its appliances are set
        HomePricesSet(own, apps) ==
        [error |-> own.error \/ apps.error,
         house |-> [hm EXCEPT !.priceProfile = own.p, !.appliances = apps.appliances]]
    IN
    LET
        \* the appliances with their priceProfile as Profile.set left it (set[i] is [error, p])
        AppliancePricesSet(appliances, set) ==
            [error |-> \E i \in DOMAIN set : set[i].error,
             appliances |-> [i \in DOMAIN appliances |->
                                [appliances[i] EXCEPT !.priceProfile = set[i].p]]]
    IN
    HomePricesSet(ProfileSet(hm.priceProfile, dt, prices), AppliancePricesSet(hm.appliances, [i \in DOMAIN hm.appliances |->
                ProfileSet(hm.appliances[i].priceProfile, dt, prices)]))

\* House.setUp(dt) of a house with several appliances; usages[i] is what
\* generateUsage of appliance i left
HomeSetUp(hm, dt, usages) ==
    [hm EXCEPT !.currentDT = dt,
               !.appliances = [i \in DOMAIN hm.appliances |->
                                  ApplianceSetUp(hm.appliances[i], dt, usages[i])]]

-----------------------------------------------------------------------------
(* connection.py: class Connection, with cheapIntervalLength = 1 *)

\* Connection(house)
NewConnection ==
    [currentDT |-> 0, cheaperPriceRatioProfile |-> EmptyProfile,
     cheaperMinutesProfile |-> EmptyProfile, priceProfile |-> EmptyProfile]

\* generateRandomCheaperIntervals over a set of midnights, the earliest first
RECURSIVE GenerateOutcomes(_, _, _, _)
GenerateOutcomes(cheaperMinutesProfile, ratioProfile, midnights, cheapMinutesTotal) ==
    LET
        \* the same with the probabilities read from the ratio profile, from
        \* cheapIntervalLength minutes after the midnight on
        MinutesOutcomes(midnight) ==
            LET
                \* one midnight of generateRandomCheaperIntervals in the branch
                \* cheapIntervalLength == 1, for the probabilities read ([error, res]): the
                \* cheaperMinutesProfile it can leave ([error, p]); randomWithRelativeProbs
                \* raises when fewer than cheapMinutesTotal positions have a positive probability
                MinutesOutcomesFor(probs) ==
                    LET cheaperIntervals == Zeros(oneDay + 2)
                        positive == IF probs.error THEN {} ELSE PositivePositions(probs.res)
                    IN  IF probs.error \/ Cardinality(positive) < cheapMinutesTotal
                        THEN {[error |-> TRUE, p |-> cheaperMinutesProfile]}
                        ELSE {ProfileAdd(cheaperMinutesProfile, midnight,
                                         MarkPositions(cheaperIntervals, cheapMinutePositions)) :
                                 cheapMinutePositions \in
                                     {ps \in SUBSET positive : Cardinality(ps) = cheapMinutesTotal}}
            IN
            MinutesOutcomesFor(ProfileGet(ratioProfile, midnight + 1, midnight + 1 + oneDay))
    IN
    IF midnights = {} THEN {[error |-> FALSE, p |-> cheaperMinutesProfile]}
    ELSE LET midnight == Earliest(midnights)
         IN  UNION {IF one.error THEN {one}
                    ELSE GenerateOutcomes(one.p, ratioProfile, midnights \ {midnight},
                                          cheapMinutesTotal) :
                       one \in MinutesOutcomes(midnight)}

\* Connection.generatePriceProfile(fromDT, toDT) on priceProfile: [error, p]
GeneratePriceProfile(priceProfile, cheaperMinutesProfile, fromDT, toDT) ==
    LET
        \* priceProfile.set of the prices of the cheaper minutes read ([error, res])
        SavePrices(cheapIntervals) ==
            LET
                \* the prices of a vector of cheaperMinutesProfile; the random part of a price,
                \* a value in [0, 0.01), is taken to be 0
                PricesOf(cheapIntervals_) ==
                     [i \in 1..Len(cheapIntervals_) |->
                         IF Min(cheapIntervals_[i], 1) > 0 THEN LowerPrice ELSE HigherPrice]
            IN
            WithError(cheapIntervals.error,
                      ProfileSet(priceProfile, fromDT, PricesOf(cheapIntervals.res)))
    IN
    SavePrices(ProfileGet(cheaperMinutesProfile, fromDT, toDT))

\* Connection.sendPriceProfile(fromDT, toDT) on the priceProfile generated
SendPriceProfile(c, hs, generated, priced, fromDT, toDT) ==
    LET
        \* the call of house.setPriceProfile in Connection.sendPriceProfile
        SetHousePrices(prices) ==
            LET
                \* the connection and its house once the prices are sent; generated and priced
                \* are what the two generations left, prices what sendPriceProfile read, sent
                \* what House.setPriceProfile left
                PricesSent(sent) ==
                    [error |-> generated.error \/ priced.error \/ prices.error \/ sent.error,
                     conn |-> [c EXCEPT !.cheaperMinutesProfile = generated.p,
                                        !.priceProfile = priced.p],
                     house |-> sent.house]
            IN
            PricesSent(HouseSetPriceProfile(hs, fromDT, prices.res))
    IN
    SetHousePrices(ProfileGet(priced.p, fromDT, toDT))

\* generatePriceProfile and sendPriceProfile for [fromDT, toDT), once the
\* cheaper intervals are generated: [error, conn, house]
PriceAndSend(c, hs, generated, fromDT, toDT) ==
    SendPriceProfile(c, hs, generated,
                     GeneratePriceProfile(c.priceProfile, generated.p, fromDT, toDT),
                     fromDT, toDT)

\* Connection.setUp sending the prices of one day less
ShortSetUpPricesTo(dt) == dt + oneDay

SetUpPricesTo(dt) == dt + 2 * oneDay

\* Connection.setUp(dt): what it can leave of the connection and its house
ConnSetUpOutcomes(c, hs, dt, cheapMinutesTotal) ==
    LET
        \* the interval for which Connection.setUp(dt) generates and sends prices
        SetUpPricesFrom == dt - 1 * oneDay
    IN
    LET fromDT == SetUpPricesFrom
        toDT == SetUpPricesTo(dt)
    IN  {PriceAndSend([c EXCEPT !.currentDT = dt], HouseSetUp(hs, dt, usages),
                      generated, fromDT, toDT) :
            usages \in GenerateUsageOutcomes(hs.appliance.usages, dt, dt + oneDay),
            generated \in GenerateOutcomes(c.cheaperMinutesProfile,
                                           c.cheaperPriceRatioProfile,
                                           MidnightsBetween(fromDT, toDT),
                                           cheapMinutesTotal)}

\* Connection.tick: what it can leave of the connection and its house
ConnTickOutcomes(c, hs, cheapMinutesTotal) ==
    LET
        \* Connection.tick after its pruning and its clock: what it can leave of the
        \* connection and its house
        TickPricesOutcomes(pruned) ==
            LET cdt == pruned.currentDT
            IN  {PriceAndSend(pruned, hs, generated, cdt + oneDay, cdt + 2 * oneDay) :
                    generated \in GenerateOutcomes(pruned.cheaperMinutesProfile,
                            pruned.cheaperPriceRatioProfile,
                            MidnightsBetween(cdt + oneDay, cdt + 2 * oneDay),
                            cheapMinutesTotal)}
    IN
    LET pruneDT == c.currentDT - oneDay
    IN  TickPricesOutcomes([c EXCEPT
                !.cheaperPriceRatioProfile = ProfilePrune(c.cheaperPriceRatioProfile, pruneDT),
                !.cheaperMinutesProfile = ProfilePrune(c.cheaperMinutesProfile, pruneDT),
                !.priceProfile = ProfilePrune(c.priceProfile, pruneDT),
                !.currentDT = c.currentDT + oneDay])

-----------------------------------------------------------------------------
(* connection.py: class Connection, with any cheapIntervalLength *)

\* the same with each buffer saved cheapIntervalLength minutes before its
\* midnight, so that an interval can start in the day before
RECURSIVE GenerateIntervalsEarlier(_, _, _, _, _)
GenerateIntervalsEarlier(cheaperMinutesProfile, ratioProfile, midnights, cheapIntervalLength, cheapMinutesTotal) ==
    LET
        ForProbs(midnight, probs, positive) ==
            IF probs.error \/ positive = {}
                           \/ (cheapIntervalLength = 1 /\ Cardinality(positive) < cheapMinutesTotal)
            THEN {[error |-> TRUE, p |-> cheaperMinutesProfile]}
            ELSE {ProfileAdd(cheaperMinutesProfile, midnight - cheapIntervalLength,
                             cheaperIntervals) :
                    cheaperIntervals \in
                        IF cheapIntervalLength = 1
                        THEN MarkedMinutes(Zeros(oneDay + 2 * cheapIntervalLength),
                                           positive, cheapMinutesTotal)
                        ELSE PlacedIntervals(Zeros(oneDay + 2 * cheapIntervalLength),
                                             positive, cheapIntervalLength, cheapMinutesTotal)}
        ForRead(midnight, probs) ==
            ForProbs(midnight, probs, IF probs.error THEN {} ELSE PositivePositions(probs.res))
        ForMidnight(midnight) ==
            ForRead(midnight, ProfileGet(ratioProfile, midnight + cheapIntervalLength,
                                         midnight + cheapIntervalLength + oneDay))
    IN
    IF midnights = {} THEN {[error |-> FALSE, p |-> cheaperMinutesProfile]}
    ELSE UNION {IF one.error THEN {one}
                ELSE GenerateIntervalsEarlier(one.p, ratioProfile,
                                              midnights \ {Earliest(midnights)},
                                              cheapIntervalLength, cheapMinutesTotal) :
                   one \in ForMidnight(Earliest(midnights))}

\* generateRandomCheaperIntervals with cheapMinutesTotal > 0 over a set of
\* midnights, the earliest first: the cheaperMinutesProfile it can leave
\* ([error, p]).  randomWithRelativeProbs raises when no probability is
\* positive (numpy.random.choice with p holding NaN) and, in the branch
\* cheapIntervalLength == 1, when fewer than cheapMinutesTotal are; there is no
\* outcome when a while loop cannot end
RECURSIVE GenerateIntervals(_, _, _, _, _)
GenerateIntervals(cheaperMinutesProfile, ratioProfile, midnights, cheapIntervalLength, cheapMinutesTotal) ==
    LET
        \* one midnight, for the probabilities read and their positive positions
        ForProbs(midnight, probs, positive) ==
            IF probs.error \/ positive = {}
                           \/ (cheapIntervalLength = 1 /\ Cardinality(positive) < cheapMinutesTotal)
            THEN {[error |-> TRUE, p |-> cheaperMinutesProfile]}
            ELSE {ProfileAdd(cheaperMinutesProfile, midnight, cheaperIntervals) :
                    cheaperIntervals \in
                        IF cheapIntervalLength = 1
                        THEN MarkedMinutes(Zeros(oneDay + 2 * cheapIntervalLength),
                                           positive, cheapMinutesTotal)
                        ELSE PlacedIntervals(Zeros(oneDay + 2 * cheapIntervalLength),
                                             positive, cheapIntervalLength, cheapMinutesTotal)}
        ForRead(midnight, probs) ==
            ForProbs(midnight, probs, IF probs.error THEN {} ELSE PositivePositions(probs.res))
        \* probs = cheaperPriceRatioProfile.get(midnight + shift, midnight + shift + oneDay)
        ForMidnight(midnight) ==
            ForRead(midnight, ProfileGet(ratioProfile, midnight + cheapIntervalLength,
                                         midnight + cheapIntervalLength + oneDay))
    IN
    IF midnights = {} THEN {[error |-> FALSE, p |-> cheaperMinutesProfile]}
    ELSE UNION {IF one.error THEN {one}
                ELSE GenerateIntervals(one.p, ratioProfile, midnights \ {Earliest(midnights)},
                                       cheapIntervalLength, cheapMinutesTotal) :
                   one \in ForMidnight(Earliest(midnights))}

\* generateRandomCheaperIntervals(fromDT, toDT): with cheapMinutesTotal == 0 a
\* minute is cheap when numpy.random.random() < its probability, which a
\* probability of 0 never is and a probability of 1 always is
GenerateRandomCheaperIntervals(c, fromDT, toDT, cheapIntervalLength, cheapMinutesTotal) ==
    LET
        Unlimited(probs) ==
            {WithError(probs.error,
                       ProfileAdd(c.cheaperMinutesProfile, fromDT,
                                  [i \in 1..Len(probs.res) |-> IF probs.res[i] > 0 THEN 1 ELSE 0]))}
    IN
    IF cheapMinutesTotal = 0
    THEN Unlimited(ProfileGet(c.cheaperPriceRatioProfile, fromDT, toDT))
    ELSE GenerateIntervals(c.cheaperMinutesProfile, c.cheaperPriceRatioProfile,
                           MidnightsBetween(fromDT, toDT), cheapIntervalLength, cheapMinutesTotal)

-----------------------------------------------------------------------------
(* grid.py: class Grid *)

\* Grid()
NewGrid ==
    [currentDT |-> 0, predictedBaseDemand |-> EmptyProfile, targetDemand |-> EmptyProfile,
     smartDemand |-> EmptyProfile, uncontrolledDemand |-> EmptyProfile,
     spreadOutDemand |-> EmptyProfile, cheapPriceRatio |-> EmptyProfile]

\* a vector of n copies of x
Constantly(n, x) == [i \in 1..Max(n, 0) |-> x]

\* a step of the planning of the Grid ([error, grid]) that has also failed
\* when error holds
OrError(error, step) == [error |-> error \/ step.error, grid |-> step.grid]

\* the grid with its predictedBaseDemand as Profile.set left it ([error, p])
PredictionSaved(g, saved) ==
    [error |-> saved.error, grid |-> [g EXCEPT !.predictedBaseDemand = saved.p]]

\* Grid.predictBaseDemand(fromDT, toDT): the forecast of gridStatistics is
\* input data, taken as one unit per connection and minute: [error, grid]
PredictBaseDemand(g, connections, fromDT, toDT) ==
    PredictionSaved(g, ProfileSet(g.predictedBaseDemand, fromDT,
                                  Constantly(minutesBetween(fromDT, toDT), connections)))

\* the grid with its targetDemand as Profile.transition left it ([error, p])
TargetSaved(g, saved) ==
    [error |-> saved.error, grid |-> [g EXCEPT !.targetDemand = saved.p]]

\* a target demand that stops at toDT, without the end margin of half a day
TargetWithoutEndMargin(g, connections, fromDT, toDT) ==
    TargetSaved(g, ProfileTransition(g.targetDemand, fromDT,
                       Constantly(minutesBetween(fromDT, toDT), connections)))

\* Grid.calculateTargetDemand(fromDT, toDT): the target covers the interval and
\* the end margin of half a day; its numbers (the interpolation between the
\* peaks, scaled to the statistics) are input data, taken as one unit per
\* connection and minute: [error, grid]
CalculateTargetDemand(g, connections, fromDT, toDT) ==
    LET
        \* calculateTargetDemand for the base demand read ([error, res])
        TargetFor(baseDemand) ==
            OrError(baseDemand.error,
                    TargetSaved(g, ProfileTransition(g.targetDemand, fromDT,
               Constantly(Len(baseDemand.res) - oneDay, connections))))
    IN
    TargetFor(ProfileGet(g.predictedBaseDemand, fromDT - oneDay, toDT + halfDay))

\* Grid.calculatePriceRatio(fromDT, toDT): the ratio covers the interval and
\* the end margin of one day; its numbers (the target scaled by the
\* availability of cars and by its daily peaks) are input data: [error, grid]
CalculatePriceRatio(g, fromDT, toDT) ==
    LET
        \* calculatePriceRatio for the target demand read ([error, res])
        RatioFor(targetDemand) ==
            LET
                \* the grid with its cheapPriceRatio as Profile.transition left it ([error, p])
                RatioSaved(saved) ==
                 [error |-> saved.error, grid |-> [g EXCEPT !.cheapPriceRatio = saved.p]]
            IN
            LET
                \* the ratio of the minutes from fromDT on: 1 at the daily peak of the target,
                \* which is at midday, and 0 in the other minutes
                PeakRatios(n) ==
         [i \in 1..Max(n, 0) |-> IF (fromDT + i - 1) % oneDay = halfDay THEN 1 ELSE 0]
            IN
            OrError(targetDemand.error,
         RatioSaved(ProfileTransition(g.cheapPriceRatio, fromDT,
                           PeakRatios(Len(targetDemand.res) - oneDay))))
    IN
    RatioFor(ProfileGet(g.targetDemand, fromDT - oneDay, toDT + oneDay))

\* predictBaseDemand, calculateTargetDemand and calculatePriceRatio as
\* Grid.setUp and Grid.tick call them, one after the other: [error, grid]
PlanAhead(g, connections, predictFrom, predictTo, targetFrom, targetTo, ratioFrom, ratioTo) ==
    LET
        \* calculatePriceRatio after calculateTargetDemand (targeted is [error, grid])
        ThenRatio(targeted, fromDT, toDT) ==
            OrError(targeted.error, CalculatePriceRatio(targeted.grid, fromDT, toDT))
    IN
    LET
        \* calculateTargetDemand after predictBaseDemand (predicted is [error, grid])
        ThenTarget(predicted, fromDT, toDT) ==
            OrError(predicted.error,
                    CalculateTargetDemand(predicted.grid, connections, fromDT, toDT))
    IN
    ThenRatio(ThenTarget(PredictBaseDemand(g, connections, predictFrom, predictTo), targetFrom, targetTo), ratioFrom, ratioTo)

\* Grid.distributePriceRatios(fromDT, toDT): [error, conns]
DistributePriceRatios(g, cs, fromDT, toDT) ==
    LET
        \* distributePriceRatios for the ratio read ([error, res])
        DistributeRatio(cheapPriceRatio) ==
            LET
                \* the connections with their cheaperPriceRatioProfile as Profile.set left it
                \* (set[h] is [error, p])
                RatiosSet(error, set) ==
                [error |-> error \/ \E h \in DOMAIN cs : set[h].error,
                 conns |-> [h \in DOMAIN cs |-> [cs[h] EXCEPT !.cheaperPriceRatioProfile = set[h].p]]]
            IN
            RatiosSet(cheapPriceRatio.error, [h \in DOMAIN cs |->
              ProfileSet(cs[h].cheaperPriceRatioProfile, fromDT, cheapPriceRatio.res)])
    IN
    DistributeRatio(ProfileGet(g.cheapPriceRatio, fromDT, toDT))

\* a sum that keeps the total and drops the demand of the connection
KeepTotal(total, demand) == [error |-> FALSE, values |-> total]

\* total += demand, as numpy adds two vectors: [error, values]
AddDemand(total, demand) == AddSlice(total, 0, Len(total), demand)

\* the loop of Grid.collectDemands over the connections h..n for one of the
\* three demands; demands[h] is what connection h returned ([error, res])
RECURSIVE SumDemands(_, _, _)
SumDemands(total, demands, h) ==
    IF h > Len(demands) THEN [error |-> FALSE, values |-> total]
    ELSE LET added == AddDemand(total, demands[h].res)
         IN  IF demands[h].error \/ added.error
             THEN [error |-> TRUE, values |-> total]
             ELSE SumDemands(added.values, demands, h + 1)

\* the interval Grid.tick collects once its clock shows cdt
CollectFrom(cdt) == cdt - oneDay
CollectTo(cdt) == cdt

\* one demand of Grid.collectDemands: the sum over the connections
\* ([error, values]) is set in the Profile of the grid: [error, p]
SetCollected(gridProfile, fromDT, summed) ==
    WithError(summed.error, ProfileSet(gridProfile, fromDT, summed.values))

\* Grid.collectDemands(fromDT, toDT): [error, grid]
CollectDemands(g, hss, fromDT, toDT) ==
    LET
        \* the grid with the three demands collected (each [error, p])
        DemandsCollected(smart, uncontrolled, spreadOut) ==
         [error |-> smart.error \/ uncontrolled.error \/ spreadOut.error,
          grid |-> [g EXCEPT !.smartDemand = smart.p,
                             !.uncontrolledDemand = uncontrolled.p,
                             !.spreadOutDemand = spreadOut.p]]
    IN
    LET zeros == Zeros(minutesBetween(fromDT, toDT))
    IN  DemandsCollected(SetCollected(g.smartDemand, fromDT,
                SumDemands(zeros, [h \in 1..Len(hss) |->
                                      ProfileGet(hss[h].smartDemand, fromDT, toDT)], 1)), SetCollected(g.uncontrolledDemand, fromDT,
                SumDemands(zeros, [h \in 1..Len(hss) |->
                                      ProfileGet(hss[h].uncontrolledDemand, fromDT, toDT)], 1)), SetCollected(g.spreadOutDemand, fromDT,
                SumDemands(zeros, [h \in 1..Len(hss) |->
                                      ProfileGet(hss[h].spreadOutDemand, fromDT, toDT)], 1)))

\* the outcomes of one call per connection, for all connections: outcomes[h] is
\* the set of what the call on connection h can leave
JointOutcomes(outcomes) ==
    {f \in [DOMAIN outcomes -> UNION {outcomes[h] : h \in DOMAIN outcomes}] :
        \A h \in DOMAIN outcomes : f[h] \in outcomes[h]}

-----------------------------------------------------------------------------
(* grid.py: Grid.predictBaseDemand and Grid.calculateTargetDemand in numbers *)

\* the least common multiple of two positive numbers
Lcm(a, b) == (a * b) \div Gcd(a, b)

\* the minutes of the interval Grid.setUp and Grid.tick ask a target for
SetUpTargetLength == 5 * oneDay + halfDay
TickTargetLength == oneDay

\* powers are counted in parts so fine that the noise of a tenth, the portion of
\* a day and the division by the minutes of either interval leave whole numbers
GridUnit == 20 * Lcm(SetUpTargetLength, TickTargetLength)

\* gridStatistics: demandForecast / householdCount - averageHouseholdDraw of one
\* household, the same every day, low or high in each minute of the day
BaseLevels == {GridUnit, 4 * GridUnit}
BasePatterns == [1..oneDay -> BaseLevels]

\* applianceStatistics: the expectedDayConsumption of one household for a day,
\* in power times minutes
DayConsumptions == {oneDay * GridUnit, 2 * oneDay * GridUnit}

\* the days the statistics are read for
FirstDay == -2
LastDay == 3 + MaxGridTicks

\* 0.9 + numpy.random.random() * 0.2, in tenths
NoiseTenths == {9, 10}

\* Grid.predictBaseDemand(fromDT, toDT) with the statistics in numbers: [error, grid]
PredictFromStatistics(g, connections, pattern, fromDT, toDT) ==
    LET
        \* the statistics of the base demand of one household in the minutes of
        \* [fromDT, toDT)
        BaseOfHousehold ==
            [i \in 1..minutesBetween(fromDT, toDT) |-> pattern[((fromDT + i - 1) % oneDay) + 1]]
    IN
    PredictionSaved(g, ProfileSet(g.predictedBaseDemand, fromDT,
        [i \in 1..minutesBetween(fromDT, toDT) |->
            connections * BaseOfHousehold[i]]))

\* utils.dayPortionsBetween(startDT, endDT): the days of the interval, each with
\* the minutes of it the interval covers (the fraction is minutes / oneDay)
DayPortionsBetween(startDT, endDT) ==
    IF startDT >= endDT THEN {}
    ELSE {[day |-> d,
           minutes |-> Min(endDT, (d + 1) * oneDay) - Max(startDT, d * oneDay)] :
             d \in (startDT \div oneDay)..((endDT - 1) \div oneDay)}

\* the sum of fraction * len(connections) * expectedDayConsumption over a set
\* of day portions
RECURSIVE SumOfPortions(_, _, _)
SumOfPortions(portions, connections, consumption) ==
    IF portions = {} THEN 0
    ELSE LET p == CHOOSE q \in portions : TRUE
         IN  (p.minutes * connections * consumption[p.day]) \div oneDay
             + SumOfPortions(portions \ {p}, connections, consumption)

\* totalExpectedConsumption before the noise
TotalExpectedConsumption(connections, consumption, fromDT, toDT) ==
    SumOfPortions(DayPortionsBetween(fromDT, toDT), connections, consumption)

\* totalExpectedConsumption *= 0.9 + random() * 0.2
Noised(totalExpectedConsumption, tenths) == (totalExpectedConsumption * tenths) \div 10

\* a finite set of numbers as the ascending list of them
RECURSIVE Ascending(_)
Ascending(S) ==
    IF S = {} THEN <<>>
    ELSE LET m == CHOOSE a \in S : \A b \in S : a <= b
         IN  <<m>> \o Ascending(S \ {m})

FindPeaks(x) ==
    LET
        PeakSet ==
         LET
             \* scipy.signal.find_peaks(x)[0], 0-based and ascending: the middle of every
             \* stretch of equal values that is higher than the value before it and the
             \* value after it; the first and the last sample are never peaks.  The peaks
             \* of a demand that repeats daily are a day apart and as wide as the stretch,
             \* which the distance and the width asked for let pass
             IsPeakStretch(l, r) ==
              /\ l >= 1 /\ r <= Len(x) - 2 /\ l <= r
              /\ x[l] < x[l + 1]
              /\ x[r + 2] < x[r + 1]
              /\ \A i \in l..r : x[i + 1] = x[l + 1]
         IN
         {(s[1] + s[2]) \div 2 :
             s \in {t \in (1..(Len(x) - 2)) \X (1..(Len(x) - 2)) :
                       IsPeakStretch(t[1], t[2])}}
    IN
                Ascending(PeakSet)

\* numpy.sum(targetDemand[:intervalLength]), the integral in power times minutes
IntervalConsumption(targetDemand, intervalLength) ==
    SumSeq(Slice(targetDemand, 0, intervalLength))

\* the target left as the difference to the smooth demand, whatever is expected
LeftUnfitted(targetDemand, expected, intervalLength) == targetDemand

\* the target scaled down to the expected consumption, or shifted up to it; a
\* scaled value is rounded down to a whole unit
FitToExpected(targetDemand, expected, intervalLength) ==
    IF expected <= IntervalConsumption(targetDemand, intervalLength)
    THEN [i \in 1..Len(targetDemand) |->
            (targetDemand[i] * expected)
                \div IntervalConsumption(targetDemand, intervalLength)]
    ELSE [i \in 1..Len(targetDemand) |->
            targetDemand[i]
            + (expected - IntervalConsumption(targetDemand, intervalLength))
                  \div intervalLength]

\* the targetDemand of calculateTargetDemand before it is stored, for the base
\* demand read and its peaks
ComputedTarget(baseDemand, peaks, expected, intervalLength) ==
    LET
        \* numpy.maximum(targetDemand, 0)
        NoNegative(targetDemand) == [i \in 1..Len(targetDemand) |-> Max(targetDemand[i], 0)]
    IN
    LET
        \* (smoothDemand - baseDemand)[startIndex:]
        RawTarget(smoothDemand, startIndex) ==
            [i \in 1..Max(Len(baseDemand) - startIndex, 0) |->
                smoothDemand[startIndex + i] - baseDemand[startIndex + i]]
    IN
    LET
        \* interp1d(peakLocs, peakVals, kind)(range(n)): every anchor of a demand that
        \* repeats daily has the same value, the daily maximum, and the quadratic or
        \* cubic spline through anchors of one value is that value at every sample
        SmoothDemand(peakVals, n) == Constantly(n, peakVals[1])
    IN
    LET
        \* baseDemand[[peaks[0]] + peaks + [peaks[-1]]]
        PeakVals ==
            [k \in 1..(Len(peaks) + 2) |->
                baseDemand[peaks[Min(Max(k - 1, 1), Len(peaks))] + 1]]
    IN
    NoNegative(FitToExpected(
        RawTarget(SmoothDemand(PeakVals, Len(baseDemand)), oneDay),
        expected, intervalLength))

\* the rest of calculateTargetDemand once the base demand is read ([error, res])
TargetFromBase(g, baseDemand, expected, fromDT, toDT) ==
    LET
        \* the target computed for the peaks found: peaks[0] raises IndexError when
        \* no peak is found
        TargetForPeaks(baseDemand_, peaks, intervalLength) ==
            IF peaks = <<>>
            THEN [error |-> TRUE, grid |-> g, computed |-> <<>>]
            ELSE [error |-> FALSE, grid |-> g,
                  computed |-> ComputedTarget(baseDemand_, peaks, expected, intervalLength)]
    IN
    IF baseDemand.error
    THEN [error |-> TRUE, grid |-> g, computed |-> <<>>]
    ELSE TargetForPeaks(baseDemand.res, FindPeaks(baseDemand.res), minutesBetween(fromDT, toDT))

\* self.targetDemand.transition(fromDT, targetDemand): [error, grid, computed]
TargetStored(g, fromDT, target) ==
    LET
        \* the grid with the target as Profile.transition left it (saved is [error, p])
        TargetStoredAs(saved) ==
            [error |-> saved.error, grid |-> TargetSaved(g, saved).grid,
             computed |-> target.computed]
    IN
    IF target.error THEN target
    ELSE TargetStoredAs(ProfileTransition(g.targetDemand, fromDT, target.computed))

\* Grid.calculateTargetDemand(fromDT, toDT) with the statistics in numbers:
\* expected is the noised totalExpectedConsumption: [error, grid, computed]
TargetFromStatistics(g, expected, fromDT, toDT) ==
    TargetStored(g, fromDT,
        TargetFromBase(g, ProfileGet(g.predictedBaseDemand, fromDT - oneDay,
                                     toDT + halfDay),
                       expected, fromDT, toDT))

-----------------------------------------------------------------------------
(* run.py: the program *)

\* the characters of an argument that is to be a number, and the texts of them
ArgChars == {"-", "0", "1", "2", "x"}
ArgTexts == UNION {[1..n -> ArgChars] : n \in 0..MaxArgLen}

Digits == {"0", "1", "2"}

\* the number a text of digits writes, from its first i characters
RECURSIVE DigitsValue(_, _)
DigitsValue(text, i) ==
    LET
        DigitValue(ch) == CASE ch = "0" -> 0 [] ch = "1" -> 1 [] ch = "2" -> 2
    IN
    IF i = 0 THEN 0 ELSE 10 * DigitsValue(text, i - 1) + DigitValue(text[i])

AllDigits(text) == Len(text) > 0 /\ \A i \in 1..Len(text) : text[i] \in Digits

\* text without its first character
Rest(text) == [i \in 1..(Len(text) - 1) |-> text[i + 1]]

\* int(text): an optional sign and digits, ValueError otherwise: [error, value]
ParseInt(text) ==
    IF Len(text) > 0 /\ text[1] = "-" /\ AllDigits(Rest(text))
    THEN [error |-> FALSE, value |-> 0 - DigitsValue(Rest(text), Len(text) - 1)]
    ELSE IF AllDigits(text)
    THEN [error |-> FALSE, value |-> DigitsValue(text, Len(text))]
    ELSE [error |-> TRUE, value |-> 0]

\* the dates given: the fields between the dashes of the first argument
DateTexts == {<<2018, 1, 1>>, <<2018, 2, 30>>, <<2018, 13, 1>>, <<2018, 1>>}

DaysInMonth(y, mth) ==
    IF mth = 2 THEN (IF y % 4 = 0 /\ (y % 100 # 0 \/ y % 400 = 0) THEN 29 ELSE 28)
    ELSE IF mth \in {4, 6, 9, 11} THEN 30 ELSE 31

\* datetime.strptime(text, "%Y-%m-%d"): ValueError unless the text is a year, a
\* month and a day of that month: [error, value]
StrpTime(fields) ==
    IF /\ Len(fields) = 3
       /\ fields[2] \in 1..12
       /\ fields[3] \in 1..DaysInMonth(fields[1], fields[2])
    THEN [error |-> FALSE, value |-> fields]
    ELSE [error |-> TRUE, value |-> <<>>]

\* a number taken as it is given
AsGiven(n) == n

\* max(0, n)
AtLeastZero(n) == Max(0, n)

\* Simulator.run(startingDate, simulationLength, houseCount, outputFolder):
\* with no house Grid.setUp raises IndexError (grid.py:137) and the program ends
\* with a traceback and exit status 1 before any day is simulated and any output
\* is written; otherwise it simulates simulationLength days and writes the output
SimulatorRun(simulationLength, houseCount) ==
    IF houseCount = 0
    THEN [exit |-> 1, days |-> 0, output |-> FALSE]
    ELSE [exit |-> 0, days |-> simulationLength, output |-> TRUE]

-----------------------------------------------------------------------------
(* Specification of one Profile under arbitrary calls *)

Times == 0..MaxT

\* values written by the callers
NewVals == {0, 4}

NewVectors == UNION {[1..n -> NewVals] : n \in 1..MaxNew}

NoCall == [op |-> "none", fromDT |-> 0, toDT |-> 0, arg |-> <<>>,
           before |-> EmptyProfile, error |-> FALSE, res |-> <<>>]

ProfileIdle == prof = EmptyProfile /\ lastCall = NoCall /\ ops = 0

AccIdle == acc = <<>> /\ accLast = <<>>

BatIdle == bat = <<>> /\ batLast = <<>>

ConnIdle == conn = <<>>

SimIdle == sim = <<>> /\ grid = <<>> /\ conns = <<>> /\ houses = <<>> /\ seen = <<>>

HomeIdle == home = <<>>

RankIdle == rank = <<>>

MachIdle == mach = <<>>

TgIdle == tg = <<>>

RunIdle == run = <<>>

HeaterIdle == heater = <<>>

FeedIdle == feed = <<>>

InitProfile == ProfileIdle /\ AccIdle /\ BatIdle /\ ConnIdle /\ SimIdle /\ HomeIdle /\ RankIdle /\ MachIdle /\ TgIdle /\ RunIdle /\ HeaterIdle /\ FeedIdle

CallGet ==
    \E a \in Times, b \in Times :
        /\ a <= b
        /\ LET r == ProfileGet(prof, a, b)
           IN  lastCall' = [op |-> "get", fromDT |-> a, toDT |-> b, arg |-> <<>>,
                            before |-> prof, error |-> r.error, res |-> r.res]
        /\ UNCHANGED <<prof, ops>>

CallSet ==
    \E a \in Times, v \in NewVectors :
        /\ ops < MaxOps
        /\ LET r == ProfileSet(prof, a, v)
           IN  /\ prof' = r.p
               /\ lastCall' = [op |-> "set", fromDT |-> a, toDT |-> a, arg |-> v,
                               before |-> prof, error |-> r.error, res |-> <<>>]
        /\ ops' = ops + 1

CallAdd ==
    \E a \in Times, v \in NewVectors :
        /\ ops < MaxOps
        /\ LET r == ProfileAdd(prof, a, v)
           IN  /\ prof' = r.p
               /\ lastCall' = [op |-> "add", fromDT |-> a, toDT |-> a, arg |-> v,
                               before |-> prof, error |-> r.error, res |-> <<>>]
        /\ ops' = ops + 1

CallTransition ==
    LET
        \* the overlaps for which the ratio table is given
        TabledOverlaps == 1..Len(RatioTable)
    IN
    \E a \in Times, v \in NewVectors :
        /\ ops < MaxOps
        /\ prof.isNone \/ Len(prof.values) - minutesBetween(prof.startingDT, a)
                            \in (TabledOverlaps \cup {n \in Int : n <= 0})
        /\ LET r == ProfileTransition(prof, a, v)
           IN  /\ prof' = r.p
               /\ lastCall' = [op |-> "transition", fromDT |-> a, toDT |-> a, arg |-> v,
                               before |-> prof, error |-> r.error, res |-> <<>>]
        /\ ops' = ops + 1

CallPrune ==
    \E a \in Times :
        /\ ops < MaxOps
        /\ prof' = ProfilePrune(prof, a)
        /\ lastCall' = [op |-> "prune", fromDT |-> a, toDT |-> a, arg |-> <<>>,
                        before |-> prof, error |-> FALSE, res |-> <<>>]
        /\ ops' = ops + 1

NextProfile ==
    /\ CallGet \/ CallSet \/ CallAdd \/ CallTransition \/ CallPrune
    /\ UNCHANGED notProfVars

SpecProfile == InitProfile /\ [][NextProfile]_vars

-----------------------------------------------------------------------------
(* Specification of one Accumulator appliance, ticking day by day *)

\* energy is counted in a unit of which chargingRate (chargingPower / 60) is a
\* whole number; the capacity is at least 1.1 * chargingRate (Accumulator.random)
ChargingRates == {2}
Capacities == {3}
\* the discharging of one minute (usageStatistics.dischargingProfile * scale / 60)
DischargingVals == {0, 1, 2}
\* the prices of one minute
PriceVals == {1, 2}

DayVectors(S) == [1..oneDay -> S]

\* after Accumulator.__init__ and setUp: a charge in [0, capacity], the
\* discharging of the first day generated, the prices of the first day received
InitAccu ==
    /\ \E rate \in ChargingRates, cap \in Capacities :
       \E c0 \in 0..cap, d \in DayVectors(DischargingVals), p \in DayVectors(PriceVals) :
          acc = [chargingRate |-> rate, capacity |-> cap, smartCharge |-> c0,
                 discharging |-> d, prices |-> p, ticks |-> 0]
    /\ accLast = <<>>
    /\ ProfileIdle /\ BatIdle /\ ConnIdle /\ SimIdle /\ HomeIdle /\ RankIdle /\ MachIdle /\ TgIdle /\ RunIdle /\ HeaterIdle /\ FeedIdle

\* Accumulator.tick, SMART part: generateUsage for the next day, then
\* calculateSmartDemand(currentDT, currentDT + oneDay) with endMargin = oneDay
AccuTick ==
    /\ acc # <<>>
    /\ acc.ticks < MaxAccTicks
    /\ \E d \in DayVectors(DischargingVals), p \in DayVectors(PriceVals) :
         LET dischargingRates == acc.discharging \o d
             priceProfile == acc.prices \o p
         IN  \E cheapestOrder \in ArgSorts(priceProfile) :
               LET chargingProfile ==
                       SmartChargingProfile(acc.smartCharge, acc.capacity, acc.chargingRate,
                                            dischargingRates, cheapestOrder)
               IN  /\ accLast' = [startingCharge |-> acc.smartCharge,
                                  dischargingRates |-> dischargingRates,
                                  priceProfile |-> priceProfile,
                                  cheapestOrder |-> cheapestOrder,
                                  chargingProfile |-> chargingProfile]
                   /\ acc' = [acc EXCEPT
                                !.smartCharge = SmartChargeAfter(acc.smartCharge, acc.chargingRate,
                                                   dischargingRates, chargingProfile, oneDay),
                                !.discharging = d,
                                !.prices = p,
                                !.ticks = acc.ticks + 1]
    /\ UNCHANGED notAccVars

NextAccu == AccuTick

SpecAccu == InitAccu /\ [][NextAccu]_vars

-----------------------------------------------------------------------------
(* Specification of one Accumulator under its three policies, ticking day by day *)

\* the discharging of one minute, in the energy unit of ChargingRates
HeaterDischarging == {0, 2}
\* random.random() * capacity at construction
HeaterCharges == {0, 2}
\* the prices of one day: rising or falling over the day
HeaterPrices == {[k \in 1..oneDay |-> k], [k \in 1..oneDay |-> oneDay + 1 - k]}

\* the power values a Profile holds for the energies of the minutes
InPower(v) == [k \in 1..Len(v) |-> v[k] * MinutesPerHour]

\* after Accumulator.__init__, setUp(0) and the first Appliance.setPriceProfile;
\* initial is the memory at construction, before the memory at the start of the
\* last tick, emitted what the ticks made so far stored for their days
InitHeater ==
    /\ \E rate \in ChargingRates, cap \in Capacities, charging \in BOOLEAN :
       \E smartCharge \in HeaterCharges, spreadOutCharge \in HeaterCharges :
       \E d \in DayVectors(HeaterDischarging), p \in HeaterPrices :
       \E memory \in {[smart |-> [currentCharge |-> smartCharge],
                       uncontrolled |-> [currentCharge |-> cap],
                       spreadOut |-> [currentCharge |-> spreadOutCharge,
                                      charging |-> charging]]} :
          heater = [a |-> [currentDT |-> 0,
                           chargingPower |-> rate * MinutesPerHour,
                           capacity |-> cap,
                           priceProfile |-> ProfileSet(EmptyProfile, 0, p).p,
                           dischargingProfile |-> ProfileSet(EmptyProfile, 0, InPower(d)).p,
                           smartDemand |-> EmptyProfile,
                           uncontrolledDemand |-> EmptyProfile,
                           spreadOutDemand |-> EmptyProfile,
                           smart |-> memory.smart,
                           uncontrolled |-> memory.uncontrolled,
                           spreadOut |-> memory.spreadOut,
                           error |-> FALSE],
                    ticks |-> 0,
                    initial |-> memory,
                    before |-> memory,
                    emitted |-> [discharging |-> <<>>, smart |-> <<>>,
                                 uncontrolled |-> <<>>, spreadOut |-> <<>>]]
    /\ ProfileIdle /\ AccIdle /\ BatIdle /\ ConnIdle /\ SimIdle /\ HomeIdle /\ RankIdle /\ MachIdle /\ TgIdle /\ RunIdle /\ FeedIdle

\* the prices of the day after the next arrive (Appliance.setPriceProfile), then
\* Accumulator.tick
HeaterTick ==
    /\ heater # <<>>
    /\ heater.ticks < MaxHeaterTicks
    /\ ~heater.a.error
    /\ \E d \in DayVectors(HeaterDischarging), p \in HeaterPrices :
       \E fromDT \in {heater.a.currentDT} :
       \E priced \in {ProfileSet(heater.a.priceProfile, fromDT + oneDay, p)} :
       \E cheapestOrder \in ArgSorts(ProfileGet(priced.p, fromDT, fromDT + 2 * oneDay).res) :
       \E ticked \in {AccumulatorTick([heater.a EXCEPT !.priceProfile = priced.p,
                                                       !.error = priced.error],
                                      InPower(d), cheapestOrder)} :
          heater' = [heater EXCEPT
                       !.a = ticked,
                       !.ticks = @ + 1,
                       !.before = [smart |-> heater.a.smart,
                                   uncontrolled |-> heater.a.uncontrolled,
                                   spreadOut |-> heater.a.spreadOut],
                       !.emitted =
                           [discharging |-> @.discharging \o
                                DischargingRates(ticked, fromDT, fromDT + oneDay).res,
                            smart |-> @.smart \o
                                ProfileGet(ticked.smartDemand, fromDT, fromDT + oneDay).res,
                            uncontrolled |-> @.uncontrolled \o
                                ProfileGet(ticked.uncontrolledDemand, fromDT, fromDT + oneDay).res,
                            spreadOut |-> @.spreadOut \o
                                ProfileGet(ticked.spreadOutDemand, fromDT, fromDT + oneDay).res]]
    /\ UNCHANGED notHeaterVars

NextHeater == HeaterTick

SpecHeater == InitHeater /\ [][NextHeater]_vars

-----------------------------------------------------------------------------
(* Specification of two runs of Accumulator.calculateSmartDemand that differ
   in the prices only *)

\* price vectors of the planned slots with pairwise distinct prices
DistinctPrices ==
    {p \in [1..(2 * oneDay) -> 1..MaxPriceLevel] :
        \A i \in DOMAIN p, j \in DOMAIN p : i # j => p[i] # p[j]}

\* p and q order the slots the same way
SameRankOrder(p, q) ==
    \A i \in DOMAIN p, j \in DOMAIN p : (p[i] < p[j]) <=> (q[i] < q[j])

\* the pairs of price profiles of the two runs: the first one numbers the slots
\* by their rank, the second one is any profile of the same rank order (two
\* profiles of the same rank order are both paired with the same first one)
PricePairs ==
    {pq \in {p \in DistinctPrices : \A i \in DOMAIN p : p[i] <= 2 * oneDay}
                \X DistinctPrices :
        SameRankOrder(pq[1], pq[2])}

\* the slots in which a chargingProfile is on
OnSlots(chargingProfile) == {i \in DOMAIN chargingProfile : chargingProfile[i] = 1}

\* an Accumulator before calculateSmartDemand, and two price profiles it may hold
InitRank ==
    /\ \E rate \in ChargingRates, cap \in Capacities :
       \E c0 \in 0..cap, d \in [1..(2 * oneDay) -> DischargingVals] :
       \E pq \in PricePairs :
          rank = [chargingRate |-> rate, capacity |-> cap, startingCharge |-> c0,
                  dischargingRates |-> d, prices |-> pq, pc |-> "plan",
                  chargingProfiles |-> <<>>]
    /\ ProfileIdle /\ AccIdle /\ BatIdle /\ ConnIdle /\ SimIdle /\ HomeIdle /\ MachIdle /\ TgIdle /\ RunIdle /\ HeaterIdle /\ FeedIdle

\* calculateSmartDemand, run once with each of the two price profiles
RankPlanBoth ==
    /\ rank # <<>>
    /\ rank.pc = "plan"
    /\ \E orderP \in ArgSorts(rank.prices[1]), orderQ \in ArgSorts(rank.prices[2]) :
          rank' = [rank EXCEPT
                     !.pc = "done",
                     !.chargingProfiles =
                         <<SmartChargingProfile(rank.startingCharge, rank.capacity,
                                                rank.chargingRate, rank.dischargingRates,
                                                orderP),
                           SmartChargingProfile(rank.startingCharge, rank.capacity,
                                                rank.chargingRate, rank.dischargingRates,
                                                orderQ)>>]
    /\ UNCHANGED notRankVars

NextRank == RankPlanBoth

SpecRank == InitRank /\ [][NextRank]_vars

-----------------------------------------------------------------------------
(* Specification of one Battery appliance planning one day *)

\* energies are counted in parts so fine that chargeNeeded * 60 divided by any
\* number of connected slots is a whole number: SPREAD-OUT divides exactly
EnergyUnit == LcmUpTo(2 * BatteryDay - 1)

\* chargingPower / 60 in energy units
ChargePerSlots == {2 * EnergyUnit, 3 * EnergyUnit}

\* the charges a day may need, from none to MaxChargeNeeded
ChargesNeeded == {k * EnergyUnit : k \in 0..MaxChargeNeeded}

\* after generateUsage: the connection time of the day, the disconnection time
\* of the next day (disconnectionSlot = day + minute of the day), the charge needed
InitBattery ==
    /\ \E cps \in ChargePerSlots, need \in ChargesNeeded,
          connectionSlot \in 0..(BatteryDay - 1),
          disconnectionSlot \in BatteryDay..(2 * BatteryDay - 1) :
          bat = [chargePerSlot |-> cps, chargeNeeded |-> need,
                 connectionSlot |-> connectionSlot, disconnectionSlot |-> disconnectionSlot]
    /\ batLast = <<>>
    /\ ProfileIdle /\ AccIdle /\ ConnIdle /\ SimIdle /\ HomeIdle /\ RankIdle /\ MachIdle /\ TgIdle /\ RunIdle /\ HeaterIdle /\ FeedIdle

\* Battery.calculateDemand for one day: the SMART and the UNCONTROLLED profile
BatteryCalculateDemand ==
    /\ bat # <<>>
    /\ batLast = <<>>
    /\ \E priceProfile \in [1..(2 * BatteryDay) -> PriceVals] :
         \E cheapest \in SmartChoices(bat, priceProfile) :
             batLast' = [priceProfile |-> priceProfile,
                         smart |-> BatterySmartProfile(BatteryDay, bat, cheapest),
                         uncontrolled |-> BatteryUncontrolledProfile(BatteryDay, bat),
                         spreadOut |-> BatterySpreadOutProfile(BatteryDay, bat)]
    /\ UNCHANGED bat
    /\ UNCHANGED notBatVars

NextBattery == BatteryCalculateDemand

SpecBattery == InitBattery /\ [][NextBattery]_vars

-----------------------------------------------------------------------------
(* Specification of one Machine appliance planning one day *)

\* the usage profiles of the class, of 1..MaxRuntime minutes
UsageProfiles ==
    UNION {[1..n -> 0..MaxUsagePower] : n \in 1..MaxRuntime}

\* what MachineStatistics draws for one date: None or
\* ((startAfter, finishBy), powerUsageProfile), both times within the day
MachineUsages ==
    {None} \cup
    [startAfter : 0..(MachineDay - 1), finishBy : 0..(MachineDay - 1),
     powerUsageProfile : UsageProfiles]

\* after generateUsage and setPriceProfile: the usage of the day and the prices
\* of the day and of the next one
InitMachine ==
    /\ \E usage \in MachineUsages,
          priceProfile \in [1..(2 * MachineDay) -> PriceVals] :
          mach = [pc |-> "plan", usage |-> usage, priceProfile |-> priceProfile,
                  cheapestSlot |-> 0, smart |-> <<>>, uncontrolled |-> <<>>,
                  spreadOut |-> <<>>, error |-> FALSE]
    /\ ProfileIdle /\ AccIdle /\ BatIdle /\ ConnIdle /\ SimIdle /\ HomeIdle /\ RankIdle /\ TgIdle /\ RunIdle /\ HeaterIdle /\ FeedIdle

\* the three power profiles of the day, given the slot SMART starts at
MachinePlanned(mc, cheapestSlot, smart, uncontrolled, spreadOut) ==
    [mc EXCEPT !.pc = "done", !.cheapestSlot = cheapestSlot,
               !.smart = smart.values, !.uncontrolled = uncontrolled.values,
               !.spreadOut = spreadOut.values,
               !.error = smart.error \/ uncontrolled.error \/ spreadOut.error]

\* Machine.calculateDemand for one day with a usage
MachineCalculateDemand ==
    /\ mach # <<>>
    /\ mach.pc = "plan"
    /\ mach.usage # None
    /\ \E cheapestSlot \in {MachineSmartSlot(MachineDay, mach.usage, mach.priceProfile)} :
         mach' = MachinePlanned(mach, cheapestSlot,
                     MachinePowerProfile(MachineDay, mach.usage, cheapestSlot),
                     MachinePowerProfile(MachineDay, mach.usage,
                                         MachineUncontrolledSlot(mach.usage)),
                     MachinePowerProfile(MachineDay, mach.usage,
                                         MachineSpreadOutSlot(MachineDay, mach.usage)))
    /\ UNCHANGED notMachVars

\* Machine.calculateDemand for one day without a usage
MachineCalculateNoDemand ==
    /\ mach # <<>>
    /\ mach.pc = "plan"
    /\ mach.usage = None
    /\ mach' = MachinePlanned(mach, 0,
                   MachinePowerProfile(MachineDay, None, 0),
                   MachinePowerProfile(MachineDay, None, 0),
                   MachinePowerProfile(MachineDay, None, 0))
    /\ UNCHANGED notMachVars

NextMachine == MachineCalculateDemand \/ MachineCalculateNoDemand

SpecMachine == InitMachine /\ [][NextMachine]_vars

-----------------------------------------------------------------------------
(* Specification of the Grid alone planning its base and target demand, at
   setUp and tick by tick *)

\* a Grid with its connections made, and the statistics its planning reads
InitTarget ==
    /\ \E connections \in 0..MaxConnections, pattern \in BasePatterns,
          consumption \in [FirstDay..LastDay -> DayConsumptions] :
          tg = [grid |-> NewGrid, connections |-> connections, pattern |-> pattern,
                consumption |-> consumption, pc |-> "setUp", ticks |-> 0,
                last |-> <<>>]
    /\ ProfileIdle /\ AccIdle /\ BatIdle /\ ConnIdle /\ SimIdle /\ HomeIdle /\ RankIdle /\ RunIdle /\ HeaterIdle /\ FeedIdle
    /\ MachIdle

\* the Grid once predictBaseDemand and calculateTargetDemand have run for
\* [fromDT, toDT): what is stored, and what the call computed and was to cover
Planned(t, currentDT, fromDT, toDT, target) ==
    IF target.error
    THEN [t EXCEPT !.pc = "raised", !.grid = [target.grid EXCEPT !.currentDT = currentDT]]
    ELSE [t EXCEPT !.pc = "tick",
                   !.grid = [target.grid EXCEPT !.currentDT = currentDT],
                   !.last = [fromDT |-> fromDT, toDT |-> toDT,
                             expected |-> TotalExpectedConsumption(
                                              t.connections, t.consumption, fromDT, toDT),
                             computed |-> target.computed,
                             before |-> t.grid.targetDemand]]

\* calculateTargetDemand after predictBaseDemand (predicted is [error, grid])
ThenTargetFromStatistics(predicted, t, tenths, fromDT, toDT) ==
    IF predicted.error
    THEN [error |-> TRUE, grid |-> predicted.grid, computed |-> <<>>]
    ELSE TargetFromStatistics(predicted.grid,
             Noised(TotalExpectedConsumption(t.connections, t.consumption,
                                             fromDT, toDT), tenths),
             fromDT, toDT)

\* Grid.setUp(0) as far as the base and the target demand go: calculatePriceRatio,
\* distributePriceRatios and the Connections read the two and leave them as they are
TargetSetUp ==
    /\ tg # <<>>
    /\ tg.pc = "setUp"
    /\ \E tenths \in NoiseTenths, dt \in {0} :
       \E predicted \in {PredictFromStatistics(tg.grid, tg.connections, tg.pattern,
                                               dt - 3 * oneDay, dt + 4 * oneDay)} :
       \E target \in {ThenTargetFromStatistics(predicted, tg, tenths,
                            dt - 2 * oneDay, dt + 3 * oneDay + halfDay)} :
          tg' = Planned(tg, dt, dt - 2 * oneDay, dt + 3 * oneDay + halfDay, target)
    /\ UNCHANGED notTgVars

\* Grid.tick() as far as the base and the target demand go
TargetTick ==
    /\ tg # <<>>
    /\ tg.pc = "tick"
    /\ tg.ticks < MaxGridTicks
    /\ \E tenths \in NoiseTenths, cdt \in {tg.grid.currentDT + oneDay} :
       \E predicted \in {PredictFromStatistics(tg.grid, tg.connections, tg.pattern,
                                               cdt + 3 * oneDay, cdt + 4 * oneDay)} :
       \E target \in {ThenTargetFromStatistics(predicted, tg, tenths,
                            cdt + 2 * oneDay + halfDay, cdt + 3 * oneDay + halfDay)} :
          tg' = [Planned(tg, cdt, cdt + 2 * oneDay + halfDay,
                         cdt + 3 * oneDay + halfDay, target)
                 EXCEPT !.ticks = tg.ticks + 1]
    /\ UNCHANGED notTgVars

NextTarget == TargetSetUp \/ TargetTick

SpecTarget == InitTarget /\ [][NextTarget]_vars

-----------------------------------------------------------------------------
(* Specification of the program run.py, from its arguments to its exit *)

\* sys.argv[1:]: three to five arguments, the first a date, the next two texts
\* that are to be numbers
Argvs ==
    UNION {[date : DateTexts, length : ArgTexts, count : ArgTexts, more : {n}] :
              n \in 0..2}

\* len(sys.argv)
ArgCount(argv) == 1 + 3 + argv.more

InitRun ==
    /\ \E argv \in Argvs :
          run = [argv |-> argv, pc |-> "check", exit |-> -1, called |-> FALSE,
                 simulationLength |-> 0, houseCount |-> 0, days |-> 0,
                 output |-> FALSE]
    /\ ProfileIdle /\ AccIdle /\ BatIdle /\ ConnIdle /\ SimIdle /\ HomeIdle /\ RankIdle
    /\ MachIdle /\ TgIdle /\ HeaterIdle /\ FeedIdle

\* if len(sys.argv) != 5: usage(); sys.exit(1)
RunCheckArguments ==
    /\ run # <<>>
    /\ run.pc = "check"
    /\ run' = IF ArgCount(run.argv) # 5
              THEN [run EXCEPT !.pc = "exited", !.exit = 1]
              ELSE [run EXCEPT !.pc = "parse"]
    /\ UNCHANGED notRunVars

\* the try block: a ValueError of strptime or int ends the program with the
\* usage and exit status 1
RunParseArguments ==
    /\ run # <<>>
    /\ run.pc = "parse"
    /\ run' = IF \/ StrpTime(run.argv.date).error
                 \/ ParseInt(run.argv.length).error
                 \/ ParseInt(run.argv.count).error
              THEN [run EXCEPT !.pc = "exited", !.exit = 1]
              ELSE [run EXCEPT
                      !.pc = "simulate",
                      !.simulationLength = AtLeastZero(ParseInt(run.argv.length).value),
                      !.houseCount = AtLeastZero(ParseInt(run.argv.count).value)]
    /\ UNCHANGED notRunVars

\* Simulator.run(startingDate, simulationLength, houseCount, outputFolder)
RunSimulate ==
    /\ run # <<>>
    /\ run.pc = "simulate"
    /\ \E outcome \in {SimulatorRun(run.simulationLength, run.houseCount)} :
          run' = [run EXCEPT !.pc = "exited", !.called = TRUE,
                             !.exit = outcome.exit, !.days = outcome.days,
                             !.output = outcome.output]
    /\ UNCHANGED notRunVars

NextRun == RunCheckArguments \/ RunParseArguments \/ RunSimulate

SpecRun == InitRun /\ [][NextRun]_vars

-----------------------------------------------------------------------------
(* Specification of one Connection generating cheaper intervals, one midnight
   after the other *)

\* the probabilities of cheaperPriceRatioProfile, in halves
ProbVals == {0, 1, 2}
ProbVectors == {v \in [1..ConnDay -> ProbVals] : SumSeq(v) > 0}

\* after Connection.__init__: nothing generated yet
InitConn ==
    /\ \E L \in 1..MaxCheapIntervalLength, Q \in 0..MaxCheapMinutesCount :
          conn = [cheapIntervalLength |-> L, cheapMinutesTotal |-> Q,
                  midnight |-> 0, midnights |-> 0, pc |-> "idle",
                  probs |-> <<>>, cheaperIntervals |-> <<>>, passes |-> 0,
                  cheaperMinutesProfile |-> EmptyProfile, raised |-> FALSE]
    /\ ProfileIdle /\ AccIdle /\ BatIdle /\ SimIdle /\ HomeIdle /\ RankIdle /\ MachIdle /\ TgIdle /\ RunIdle /\ HeaterIdle /\ FeedIdle

ConnReady ==
    /\ conn # <<>>
    /\ conn.pc = "idle"
    /\ ~conn.raised
    /\ conn.midnights < MaxMidnights

\* cheaperMinutesProfile.add(midnight, cheaperIntervals), then on to the next midnight
SavedIntervals(c, cheaperIntervals) ==
    [c EXCEPT !.cheaperMinutesProfile =
                  ProfileAdd(c.cheaperMinutesProfile, c.midnight, cheaperIntervals).p,
              !.midnight = c.midnight + ConnDay,
              !.midnights = c.midnights + 1,
              !.pc = "idle",
              !.passes = 0,
              !.cheaperIntervals = <<>>]

\* cheapMinutesTotal == 0: every minute is cheap with its own probability
ConnGenerateUnlimited ==
    /\ ConnReady
    /\ conn.cheapMinutesTotal = 0
    /\ \E probs \in ProbVectors :
       \E cheaperMinutes \in [1..ConnDay -> {0, 1}] :
          /\ \A i \in 1..ConnDay : /\ probs[i] = 0 => cheaperMinutes[i] = 0
                                   /\ probs[i] = 2 => cheaperMinutes[i] = 1
          /\ conn' = SavedIntervals([conn EXCEPT !.probs = probs], cheaperMinutes)
    /\ UNCHANGED notConnVars

\* cheapIntervalLength == 1: cheapMinutesTotal positions drawn without
\* replacement; numpy.random.choice raises ValueError when fewer positions
\* have a positive probability
ConnGenerateMinutes ==
    /\ ConnReady
    /\ conn.cheapMinutesTotal > 0
    /\ conn.cheapIntervalLength = 1
    /\ \E probs \in ProbVectors :
         LET cheaperIntervals == Zeros(ConnDay + 2 * conn.cheapIntervalLength)
         IN  IF Cardinality(PositivePositions(probs)) < conn.cheapMinutesTotal
             THEN conn' = [conn EXCEPT !.probs = probs, !.raised = TRUE]
             ELSE \E marked \in MarkedMinutes(cheaperIntervals, PositivePositions(probs),
                                               conn.cheapMinutesTotal) :
                     conn' = SavedIntervals([conn EXCEPT !.probs = probs], marked)
    /\ UNCHANGED notConnVars

\* cheapIntervalLength > 1: the buffer of the midnight starts all expensive
ConnBeginIntervals ==
    /\ ConnReady
    /\ conn.cheapMinutesTotal > 0
    /\ conn.cheapIntervalLength # 1
    /\ \E probs \in ProbVectors :
          conn' = [conn EXCEPT !.probs = probs, !.pc = "placing",
                       !.cheaperIntervals = Zeros(ConnDay + 2 * conn.cheapIntervalLength)]
    /\ UNCHANGED notConnVars

\* one pass of "while numpy.sum(cheaperIntervals) < cheapMinutesTotal" in which
\* randomWithRelativeProbs returns position; of the number of passes made the
\* state keeps whether it is odd
ConnPlaceAt(position) ==
    /\ conn # <<>>
    /\ conn.pc = "placing"
    /\ SumSeq(conn.cheaperIntervals) < conn.cheapMinutesTotal
    /\ position \in PositivePositions(conn.probs)
    /\ conn' = [conn EXCEPT !.cheaperIntervals =
                    PlaceInterval(conn.cheaperIntervals, conn.cheapIntervalLength, position),
                             !.passes = 1 - conn.passes]
    /\ UNCHANGED notConnVars

\* one pass of the loop
ConnPlaceInterval == \E position \in 0..(ConnDay - 1) : ConnPlaceAt(position)

\* the loop is left and the buffer is saved
ConnSaveIntervals ==
    /\ conn # <<>>
    /\ conn.pc = "placing"
    /\ SumSeq(conn.cheaperIntervals) >= conn.cheapMinutesTotal
    /\ conn' = SavedIntervals(conn, conn.cheaperIntervals)
    /\ UNCHANGED notConnVars

NextConn ==
    \/ ConnGenerateUnlimited
    \/ ConnGenerateMinutes
    \/ ConnBeginIntervals
    \/ ConnPlaceInterval
    \/ ConnSaveIntervals

SpecConn == InitConn /\ [][NextConn]_vars

\* the same Connection when the program keeps running and the sampling is
\* fair: a position with a positive probability is returned again and again
\* while the loop runs, and the loop is left once its condition is false
SpecConnFair ==
    /\ SpecConn
    /\ \A position \in 0..(ConnDay - 1) : SF_vars(ConnPlaceAt(position))
    /\ WF_vars(ConnSaveIntervals)

-----------------------------------------------------------------------------
(* Specification of one Connection generating, pricing and sending prices day
   after day, its price ratios coming from the Grid *)

\* the datetime of Grid.setUp, a midnight
FeedStartingDT == 2 * oneDay

\* the price ratios the Grid distributes for [fromDT, toDT): every minute, the
\* even minutes or the odd minutes can be cheap
FeedRatios(fromDT, toDT) ==
    {[i \in 1..(toDT - fromDT) |-> IF (fromDT + i - 1) % 2 \in cheap THEN 1 ELSE 0] :
        cheap \in {{0, 1}, {0}, {1}}}

\* after Connection.__init__, with the priceConfig of the run
InitFeed ==
    /\ \E L \in 1..MaxCheapIntervalLength, Q \in 0..MaxCheapMinutesCount :
          feed = [cheapIntervalLength |-> L, cheapMinutesTotal |-> Q,
                  conn |-> NewConnection, pc |-> "new", ticks |-> 0,
                  sent |-> <<>>, housePrices |-> EmptyProfile]
    /\ ProfileIdle /\ AccIdle /\ BatIdle /\ ConnIdle /\ SimIdle /\ HomeIdle /\ RankIdle /\ MachIdle /\ TgIdle /\ RunIdle /\ HeaterIdle

\* generatePriceProfile and sendPriceProfile of setUp and tick, once the cheaper
\* intervals are generated: the prices read are set in the priceProfile of the house
FeedPriceAndSend(f, c, generated, fromDT, toDT) ==
    LET
        Sent(priced, prices) ==
            IF generated.error \/ priced.error \/ prices.error
            THEN [f EXCEPT !.pc = "raised"]
            ELSE [f EXCEPT !.conn = [c EXCEPT !.cheaperMinutesProfile = generated.p,
                                              !.priceProfile = priced.p],
                           !.pc = "sent",
                           !.sent = Append(f.sent, [fromDT |-> fromDT, toDT |-> toDT]),
                           !.housePrices = ProfileSet(f.housePrices, fromDT, prices.res).p]
        Priced(priced) == Sent(priced, ProfileGet(priced.p, fromDT, toDT))
    IN
    Priced(GeneratePriceProfile(c.priceProfile, generated.p, fromDT, toDT))

\* Grid.distributePriceRatios calling Connection.setPriceRatio: in Grid.setUp for
\* [dt - 1 day, dt + 2.5 days), in Grid.tick for [cdt + 1.5 days, cdt + 2.5 days),
\* cdt being the day the Connection is about to move to
FeedSetPriceRatio ==
    /\ feed # <<>>
    /\ feed.pc \in {"new", "sent"}
    /\ feed.ticks < MaxFeedTicks
    /\ \E fromDT \in {IF feed.pc = "new" THEN FeedStartingDT - oneDay
                      ELSE feed.conn.currentDT + 2 * oneDay + halfDay} :
       \E toDT \in {IF feed.pc = "new" THEN FeedStartingDT + 2 * oneDay + halfDay
                    ELSE feed.conn.currentDT + 3 * oneDay + halfDay} :
       \E priceRatio \in FeedRatios(fromDT, toDT) :
          feed' = [feed EXCEPT
                      !.conn.cheaperPriceRatioProfile =
                          ProfileSet(feed.conn.cheaperPriceRatioProfile, fromDT, priceRatio).p,
                      !.pc = IF feed.pc = "new" THEN "setUp" ELSE "tick"]
    /\ UNCHANGED notFeedVars

\* Connection.setUp(dt)
FeedSetUp ==
    /\ feed # <<>>
    /\ feed.pc = "setUp"
    /\ \E dt \in {FeedStartingDT} :
       \E c \in {[feed.conn EXCEPT !.currentDT = dt]} :
       \E generated \in GenerateRandomCheaperIntervals(c, dt - 1 * oneDay, SetUpPricesTo(dt),
                            feed.cheapIntervalLength, feed.cheapMinutesTotal) :
          feed' = FeedPriceAndSend(feed, c, generated, dt - 1 * oneDay, SetUpPricesTo(dt))
    /\ UNCHANGED notFeedVars

\* Connection.tick
FeedTick ==
    /\ feed # <<>>
    /\ feed.pc = "tick"
    /\ \E pruneDT \in {feed.conn.currentDT - oneDay} :
       \E c \in {[feed.conn EXCEPT
                    !.cheaperPriceRatioProfile = ProfilePrune(feed.conn.cheaperPriceRatioProfile, pruneDT),
                    !.cheaperMinutesProfile = ProfilePrune(feed.conn.cheaperMinutesProfile, pruneDT),
                    !.priceProfile = ProfilePrune(feed.conn.priceProfile, pruneDT),
                    !.currentDT = feed.conn.currentDT + oneDay]} :
       \E cdt \in {c.currentDT} :
       \E generated \in GenerateRandomCheaperIntervals(c, cdt + oneDay, cdt + 2 * oneDay,
                            feed.cheapIntervalLength, feed.cheapMinutesTotal) :
          feed' = FeedPriceAndSend([feed EXCEPT !.ticks = feed.ticks + 1], c, generated,
                                   cdt + oneDay, cdt + 2 * oneDay)
    /\ UNCHANGED notFeedVars

NextFeed ==
    \/ FeedSetPriceRatio
    \/ FeedSetUp
    \/ FeedTick

SpecFeed == InitFeed /\ [][NextFeed]_vars

-----------------------------------------------------------------------------
(* Specification of a whole simulation: Simulator.run *)

\* the arguments of run that are simulated together
Scenarios == [houseCount : 1..MaxHouses, simulationLength : 0..MaxDays]

\* run up to the call of grid.setUp: the Grid, the Houses and their Connections
\* are constructed; priceConfig has cheapIntervalLength 1 and cheapMinutesCount 1
InitSim ==
    LET
        NothingSeen(houseCount) ==
            [last |-> "run", planned |-> [h \in 1..houseCount |-> <<>>],
             aggregated |-> [h \in 1..houseCount |-> <<>>], collected |-> <<>>]
    IN
    /\ \E sc \in Scenarios :
          /\ sim = [houseCount |-> sc.houseCount, simulationLength |-> sc.simulationLength,
                    startingDT |-> 0, currentDT |-> 0, pc |-> "setUp", house |-> 1,
                    cheapIntervalLength |-> 1, cheapMinutesTotal |-> 1]
          /\ conns = [h \in 1..sc.houseCount |-> NewConnection]
          /\ houses = [h \in 1..sc.houseCount |-> NewHouse]
          /\ seen = NothingSeen(sc.houseCount)
    /\ grid = NewGrid
    /\ ProfileIdle /\ AccIdle /\ BatIdle /\ ConnIdle /\ HomeIdle /\ RankIdle /\ MachIdle /\ TgIdle /\ RunIdle /\ HeaterIdle /\ FeedIdle

\* where the day loop of run goes once the clock shows currentDT
LoopAt(currentDT) ==
    IF currentDT < sim.startingDT + sim.simulationLength * oneDay THEN "houses" ELSE "done"

\* grid.setUp(startingDT), with the setUp of every Connection, House and appliance
GridSetUp ==
    /\ sim # <<>>
    /\ sim.pc = "setUp"
    /\ \E dt \in {sim.startingDT} :
       \E planned \in {PlanAhead(grid, sim.houseCount,
                                 dt - 3 * oneDay, dt + 4 * oneDay,
                                 dt - 2 * oneDay, dt + 3 * oneDay + halfDay,
                                 dt - 1 * oneDay, dt + 2 * oneDay + halfDay)} :
       \E distributed \in {DistributePriceRatios(planned.grid, conns,
                                 dt - 1 * oneDay, dt + 2 * oneDay + halfDay)} :
       \E out \in JointOutcomes([h \in 1..sim.houseCount |->
                      ConnSetUpOutcomes(distributed.conns[h], houses[h], dt,
                                        sim.cheapMinutesTotal)]) :
          IF planned.error \/ distributed.error \/ \E h \in DOMAIN out : out[h].error
          THEN /\ sim' = [sim EXCEPT !.pc = "raised"]
               /\ UNCHANGED <<grid, conns, houses, seen>>
          ELSE /\ grid' = [planned.grid EXCEPT !.currentDT = dt]
               /\ conns' = [h \in DOMAIN out |-> out[h].conn]
               /\ houses' = [h \in DOMAIN out |-> out[h].house]
               /\ seen' = [seen EXCEPT !.last = "setUp"]
               /\ sim' = [sim EXCEPT !.pc = LoopAt(sim.currentDT), !.house = 1]
    /\ UNCHANGED notSimVars

\* what a House plans with at its tick: the prices its appliance holds for
\* [fromDT, fromDT + 2 * oneDay) after the pruning of the tick, the prices its
\* Connection has for the same minutes, and the interval the appliance stores
PlannedWith(a, c, pruned) ==
    [fromDT |-> a.currentDT,
     held |-> PricesAtTick(a),
     sent |-> ProfileGet(c.priceProfile, a.currentDT, a.currentDT + 2 * oneDay),
     storedFrom |-> pruned.startingDT,
     storedTo |-> EndDT(pruned),
     stored |-> ~pruned.isNone]

\* h.tick() for the next House of the day
SimHouseTick ==
    /\ sim # <<>>
    /\ sim.pc = "houses"
    /\ \E h \in {sim.house} :
       \E usages \in GenerateUsageOutcomes(houses[h].appliance.usages,
                                           houses[h].appliance.currentDT + oneDay,
                                           houses[h].appliance.currentDT + 2 * oneDay) :
       \E cheapest \in TickChoices(houses[h].appliance, usages) :
       \E ticked \in {HouseTick(houses[h], usages, cheapest)} :
          IF ticked.error
          THEN /\ sim' = [sim EXCEPT !.pc = "raised"]
               /\ UNCHANGED <<houses, seen>>
          ELSE /\ houses' = [i \in DOMAIN houses |-> IF i = h THEN ticked.house ELSE houses[i]]
               /\ seen' = [seen EXCEPT
                     !.last = "house",
                     !.planned[h] =
                         PlannedWith(houses[h].appliance, conns[h],
                                     ProfilePrune(houses[h].appliance.priceProfile,
                                                  houses[h].appliance.currentDT - oneDay)),
                     !.aggregated[h] =
                         [fromDT |-> houses[h].currentDT,
                          toDT |-> houses[h].currentDT + oneDay]]
               /\ sim' = [sim EXCEPT
                     !.pc = IF h = sim.houseCount THEN "grid" ELSE "houses",
                     !.house = IF h = sim.houseCount THEN 1 ELSE h + 1]
    /\ UNCHANGED <<grid, conns>>
    /\ UNCHANGED notSimVars

\* grid.tick() once every House of the day has ticked, with the tick of every
\* Connection, then the clock of run
SimGridTick ==
    /\ sim # <<>>
    /\ sim.pc = "grid"
    /\ \E cdt \in {grid.currentDT + oneDay} :
       \E collected \in {CollectDemands(grid, houses, CollectFrom(cdt), CollectTo(cdt))} :
       \E planned \in {PlanAhead(collected.grid, sim.houseCount,
                                 cdt + 3 * oneDay, cdt + 4 * oneDay,
                                 cdt + 2 * oneDay + halfDay, cdt + 3 * oneDay + halfDay,
                                 cdt + 1 * oneDay + halfDay, cdt + 2 * oneDay + halfDay)} :
       \E distributed \in {DistributePriceRatios(planned.grid, conns,
                                 cdt + 1 * oneDay + halfDay, cdt + 2 * oneDay + halfDay)} :
       \E out \in JointOutcomes([h \in 1..sim.houseCount |->
                      ConnTickOutcomes(distributed.conns[h], houses[h],
                                       sim.cheapMinutesTotal)]) :
          IF \/ collected.error \/ planned.error \/ distributed.error
             \/ \E h \in DOMAIN out : out[h].error
          THEN /\ sim' = [sim EXCEPT !.pc = "raised"]
               /\ UNCHANGED <<grid, conns, houses, seen>>
          ELSE /\ grid' = [planned.grid EXCEPT !.currentDT = cdt]
               /\ conns' = [h \in DOMAIN out |-> out[h].conn]
               /\ houses' = [h \in DOMAIN out |-> out[h].house]
               /\ seen' = [seen EXCEPT
                     !.last = "grid",
                     !.collected =
                         [fromDT |-> CollectFrom(cdt), toDT |-> CollectTo(cdt),
                          houseDT |-> [h \in DOMAIN houses |-> houses[h].currentDT],
                          aggregated |-> seen.aggregated]]
               /\ sim' = [sim EXCEPT !.currentDT = sim.currentDT + oneDay,
                                     !.pc = LoopAt(sim.currentDT + oneDay),
                                     !.house = 1]
    /\ UNCHANGED notSimVars

NextSim == GridSetUp \/ SimHouseTick \/ SimGridTick

SpecSim == InitSim /\ [][NextSim]_vars

-----------------------------------------------------------------------------
(* Specification of one House with several appliances, ticking day by day *)

\* the prices a Connection can send for one day: with cheapIntervalLength 1 and
\* cheapMinutesCount 1 one minute of the day has the lower price
DayPrices ==
    {prices \in [1..oneDay -> {LowerPrice, HigherPrice}] :
        Cardinality({i \in 1..oneDay : prices[i] = LowerPrice}) = 1}

\* the house after Connection.setUp(0): its appliances are set up and hold the
\* prices of [-oneDay, 2 * oneDay), the same for the three days
InitHome ==
    /\ \E n \in 0..MaxAppliances :
       \E usages \in JointOutcomes([i \in 1..n |->
                        GenerateUsageOutcomes(<<>>, 0, oneDay)]) :
       \E prices \in DayPrices :
          home = [ticks |-> 0, pc |-> "tick",
                  house |-> HomeSetPriceProfile(
                                HomeSetUp(NewHome([i \in 1..n |-> NewBattery]), 0, usages),
                                0 - oneDay, prices \o prices \o prices).house]
    /\ ProfileIdle /\ AccIdle /\ BatIdle /\ ConnIdle /\ SimIdle /\ RankIdle /\ MachIdle /\ TgIdle /\ RunIdle /\ HeaterIdle /\ FeedIdle

\* House.tick with the tick of every appliance
HomeTickAll ==
    /\ home # <<>>
    /\ home.pc = "tick"
    /\ home.ticks < MaxHomeTicks
    /\ \E ticked \in JointOutcomes([i \in DOMAIN home.house.appliances |->
                         ApplianceTickOutcomes(home.house.appliances[i])]) :
       \E after \in {HomeTick(home.house, ticked)} :
          home' = IF after.error THEN [home EXCEPT !.pc = "raised"]
                  ELSE [ticks |-> home.ticks + 1, pc |-> "prices", house |-> after.house]
    /\ UNCHANGED notHomeVars

\* the Connection sends the prices of one more day, as in Connection.tick
HomeReceivePrices ==
    /\ home # <<>>
    /\ home.pc = "prices"
    /\ home.ticks < MaxHomeTicks
    /\ \E prices \in DayPrices :
       \E after \in {HomeSetPriceProfile(home.house, home.house.currentDT + oneDay, prices)} :
          home' = IF after.error THEN [home EXCEPT !.pc = "raised"]
                  ELSE [home EXCEPT !.pc = "tick", !.house = after.house]
    /\ UNCHANGED notHomeVars

NextHome == HomeTickAll \/ HomeReceivePrices

SpecHome == InitHome /\ [][NextHome]_vars

-----------------------------------------------------------------------------
(* Claims about Profile *)

\* what a zero-padded windowed read of p over [a, b) is
ZeroPadded(p, a, b) ==
    [i \in 1..(b - a) |->
        IF ~p.isNone /\ a + i - 1 >= p.startingDT /\ a + i - 1 < EndDT(p)
        THEN p.values[a + i - p.startingDT] ELSE 0]

\* C6: Profile.get(a, b), a <= b, returns exactly minutes(b-a) entries, the
\* stored value for a minute inside [t0, t0+n) and 0 for any other minute, also
\* for windows starting before t0 or reaching past the stored end; and for
\* t1 <= t2 <= t3, get(t1,t3) is get(t1,t2) followed by get(t2,t3).
C6_GetZeroPads ==
    /\ lastCall.op = "get" =>
          /\ ~lastCall.error
          /\ lastCall.res = ZeroPadded(lastCall.before, lastCall.fromDT, lastCall.toDT)
    /\ \A t1 \in Times, t2 \in Times, t3 \in Times :
          (t1 <= t2 /\ t2 <= t3) =>
              LET whole == ProfileGet(prof, t1, t3)
                  left  == ProfileGet(prof, t1, t2)
                  right == ProfileGet(prof, t2, t3)
              IN  /\ ~whole.error /\ ~left.error /\ ~right.error
                  /\ whole.res = left.res \o right.res

\* a read whose window starts before the stored start has been made
C6_ReadBeforeStart ==
    /\ lastCall.op = "get"
    /\ ~lastCall.before.isNone
    /\ lastCall.fromDT < lastCall.before.startingDT
    /\ lastCall.toDT > lastCall.fromDT

\* C7: set, add and transition leave the start timestamp as the first write
\* fixed it, and a call writing k values at offset i >= 0 leaves the stored
\* length at max(previous length, i + k), also when i is the previous length.
C7_StorageInvariant ==
    lastCall.op \in {"set", "add", "transition"} =>
        LET b == lastCall.before
            k == Len(lastCall.arg)
            i == minutesBetween(b.startingDT, lastCall.fromDT)
        IN  IF b.isNone
            THEN /\ ~prof.isNone
                 /\ prof.startingDT = lastCall.fromDT
                 /\ Len(prof.values) = k
            ELSE i >= 0 =>
                 /\ ~lastCall.error
                 /\ prof.startingDT = b.startingDT
                 /\ Len(prof.values) = Max(Len(b.values), i + k)

\* a write that starts exactly at the stored end has been made
C7_WriteAtEnd ==
    /\ lastCall.op \in {"set", "add", "transition"}
    /\ ~lastCall.before.isNone
    /\ Len(lastCall.before.values) > 0
    /\ lastCall.fromDT = EndDT(lastCall.before)

\* C8: transition(fromDT, newValues) on a Profile whose stored end lies L >= 0
\* minutes after fromDT, len(newValues) >= L: cells before fromDT are unchanged;
\* for L > 0 the cell at fromDT keeps its old value, for L = 2 the cell at
\* offset 1 is the mean of old and new; every cell at offset >= L is
\* newValues[offset], and get(fromDT+L, fromDT+len) is the tail of newValues.
C8_TransitionCells ==
    LET b == lastCall.before
        new == lastCall.arg
        k == Len(new)
        s == minutesBetween(b.startingDT, lastCall.fromDT)
        L == Len(b.values) - s
    IN  (lastCall.op = "transition" /\ ~b.isNone /\ s >= 0 /\ L >= 0 /\ k >= L) =>
            /\ ~lastCall.error
            /\ Len(prof.values) >= s + k
            /\ \A j \in 1..s : prof.values[j] = b.values[j]
            /\ L > 0 => prof.values[s + 1] = b.values[s + 1]
            /\ L = 2 => prof.values[s + 2] = (b.values[s + 2] + new[2]) \div 2
            /\ \A off \in L..(k - 1) : prof.values[s + off + 1] = new[off + 1]
            /\ LET tail == ProfileGet(prof, lastCall.fromDT + L, lastCall.fromDT + k)
               IN  /\ ~tail.error
                   /\ tail.res = [j \in 1..(k - L) |-> new[L + j]]

\* a transition with a real overlap and a new tail has been made
C8_TransitionOverlap ==
    /\ lastCall.op = "transition"
    /\ ~lastCall.before.isNone
    /\ EndDT(lastCall.before) - lastCall.fromDT = 1
    /\ Len(lastCall.arg) = 2

\* C9: prune(t) changes no readable value at or after t: get(t, t') returns
\* the same after prune(t) as before it for every t' >= t, and prune(t) with
\* t <= t0 changes nothing at all.
C9_PruneKeepsReads ==
    lastCall.op = "prune" =>
        /\ \A t2 \in Times :
              t2 >= lastCall.fromDT =>
                  ProfileGet(prof, lastCall.fromDT, t2)
                      = ProfileGet(lastCall.before, lastCall.fromDT, t2)
        /\ (~lastCall.before.isNone /\ lastCall.fromDT <= lastCall.before.startingDT)
              => prof = lastCall.before

\* a prune that dropped stored values has been made
C9_PruneDropped ==
    /\ lastCall.op = "prune"
    /\ ~lastCall.before.isNone
    /\ Len(prof.values) < Len(lastCall.before.values)

-----------------------------------------------------------------------------
(* Claims about the Accumulator's SMART demand *)

\* the simulated charge at the end of minute k (1-based) under chargingProfile
SimulatedCharge(startingCharge, chargingRate, dischargingRates, chargingProfile, k) ==
    startingCharge + SumSeq(Prefix(chargingProfile, k)) * chargingRate
        - SumSeq(Prefix(dischargingRates, k))

\* chargingProfile keeps the charge inside [0, capacity] at the end of every minute
KeepsLimits(startingCharge, capacity, chargingRate, dischargingRates, chargingProfile) ==
    \A k \in 1..Len(dischargingRates) :
        LET c == SimulatedCharge(startingCharge, chargingRate, dischargingRates,
                                 chargingProfile, k)
        IN  0 <= c /\ c <= capacity

\* the total price of the slots that are on
TotalPrice(priceProfile, chargingProfile) ==
    SumSeq([k \in 1..Len(priceProfile) |-> priceProfile[k] * chargingProfile[k]])

\* C1: for every starting charge in [0, capacity], every discharging sequence
\* and every price order, the chosen on/off profile keeps the simulated charge
\* c0 + onCount(k)*r - D_k inside [0, capacity] at the end of every minute k.
C1_ChargeWithinLimits ==
    (accLast # <<>> /\ accLast.startingCharge \in 0..acc.capacity) =>
        KeepsLimits(accLast.startingCharge, acc.capacity, acc.chargingRate,
                    accLast.dischargingRates, accLast.chargingProfile)

\* a plan that turns the appliance on in some slot has been computed
C1_Planned ==
    /\ accLast # <<>>
    /\ accLast.startingCharge \in 0..acc.capacity
    /\ \E k \in 1..Len(accLast.chargingProfile) : accLast.chargingProfile[k] = 1

\* C2: whenever some set of on-slots keeps the charge inside [0, capacity] on
\* every prefix, the chosen set is such a set and its total price is the least
\* total price of all such sets.
C2_CheapestFeasible ==
    accLast # <<>> =>
        LET n == Len(accLast.dischargingRates)
            feasible == {cp \in [1..n -> {0, 1}] :
                            KeepsLimits(accLast.startingCharge, acc.capacity,
                                        acc.chargingRate, accLast.dischargingRates, cp)}
        IN  feasible # {} =>
                /\ accLast.chargingProfile \in feasible
                /\ \A cp \in feasible :
                      TotalPrice(accLast.priceProfile, accLast.chargingProfile)
                          <= TotalPrice(accLast.priceProfile, cp)

\* a plan has been computed for inputs that admit several feasible sets
C2_SeveralFeasible ==
    /\ accLast # <<>>
    /\ LET n == Len(accLast.dischargingRates)
       IN  Cardinality({cp \in [1..n -> {0, 1}] :
                            KeepsLimits(accLast.startingCharge, acc.capacity,
                                        acc.chargingRate, accLast.dischargingRates, cp)}) > 1

-----------------------------------------------------------------------------
(* Claims about the Accumulator over several days *)

\* the minutes among the first k in which the emitted demand is chargingPower
OnMinutes(demand, chargingPower, k) == {j \in 1..k : demand[j] = chargingPower}

\* the charge after minute k when the emitted demand is replayed against the
\* discharging from the charge startingCharge
ReplayedCharge(startingCharge, chargingRate, chargingPower, discharging, demand, k) ==
    startingCharge - SumSeq(Prefix(discharging, k))
        + chargingRate * Cardinality(OnMinutes(demand, chargingPower, k))

\* the last day of what was emitted
LastEmittedDay(v) == [k \in 1..oneDay |-> v[Len(v) - oneDay + k]]

\* C21: after every tick the stored smart charge is the starting charge of that
\* tick minus the discharge of the emitted minutes plus chargingRate for every
\* emitted on-minute, nothing beyond the emitted day is stored as demand, and the
\* stored charge is the charge obtained by replaying all the emitted smartDemand
\* against the discharging from the initial charge.
C21_SmartChargeContinuity ==
    (heater # <<>> /\ heater.ticks >= 1) =>
        /\ heater.a.smart.currentCharge =
               ReplayedCharge(heater.before.smart.currentCharge, ChargingRate(heater.a),
                              heater.a.chargingPower, LastEmittedDay(heater.emitted.discharging),
                              LastEmittedDay(heater.emitted.smart), oneDay)
        /\ EndDT(heater.a.smartDemand) = heater.a.currentDT
        /\ heater.a.smart.currentCharge =
               ReplayedCharge(heater.initial.smart.currentCharge, ChargingRate(heater.a),
                              heater.a.chargingPower, heater.emitted.discharging,
                              heater.emitted.smart, Len(heater.emitted.smart))

\* two ticks have passed, each emitted an on-minute and discharged
C21_TwoDaysCharged ==
    /\ heater # <<>>
    /\ heater.ticks >= 2
    /\ \E k \in 1..oneDay : heater.emitted.smart[k] = heater.a.chargingPower
    /\ \E k \in 1..oneDay : LastEmittedDay(heater.emitted.smart)[k] = heater.a.chargingPower
    /\ \E k \in 1..oneDay : LastEmittedDay(heater.emitted.discharging)[k] > 0

\* the charge left after the discharge of minute k, replayed from startingCharge
ChargeAfterDischarge(startingCharge, chargingRate, chargingPower, discharging, demand, k) ==
    ReplayedCharge(startingCharge, chargingRate, chargingPower, discharging, demand, k - 1)
        - discharging[k]

\* C22: in every emitted minute the uncontrolled demand is chargingPower if the
\* charge left after that minute's discharge plus chargingRate is below the
\* capacity and 0 otherwise; starting from the capacity with no negative
\* discharging, the charge is at most the capacity after every minute, and so is
\* the stored charge.
C22_UncontrolledThreshold ==
    heater # <<>> =>
        /\ \A k \in 1..Len(heater.emitted.uncontrolled) :
              heater.emitted.uncontrolled[k] =
                  IF ChargeAfterDischarge(heater.initial.uncontrolled.currentCharge,
                         ChargingRate(heater.a), heater.a.chargingPower,
                         heater.emitted.discharging, heater.emitted.uncontrolled, k)
                       + ChargingRate(heater.a) < heater.a.capacity
                  THEN heater.a.chargingPower ELSE 0
        /\ (/\ heater.initial.uncontrolled.currentCharge = heater.a.capacity
            /\ \A k \in 1..Len(heater.emitted.discharging) : heater.emitted.discharging[k] >= 0)
           => /\ \A k \in 1..Len(heater.emitted.uncontrolled) :
                    ReplayedCharge(heater.initial.uncontrolled.currentCharge,
                        ChargingRate(heater.a), heater.a.chargingPower,
                        heater.emitted.discharging, heater.emitted.uncontrolled, k)
                      <= heater.a.capacity
              /\ heater.a.uncontrolled.currentCharge <= heater.a.capacity
              /\ heater.a.uncontrolled.currentCharge =
                     ReplayedCharge(heater.initial.uncontrolled.currentCharge,
                        ChargingRate(heater.a), heater.a.chargingPower,
                        heater.emitted.discharging, heater.emitted.uncontrolled,
                        Len(heater.emitted.uncontrolled))

\* two ticks have passed with minutes on and minutes off, one of them off
\* because charging would fill the appliance exactly
C22_OnAndOffMinutes ==
    /\ heater # <<>>
    /\ heater.ticks >= 2
    /\ \E k \in 1..Len(heater.emitted.uncontrolled) :
          heater.emitted.uncontrolled[k] = heater.a.chargingPower
    /\ \E k \in 1..Len(heater.emitted.uncontrolled) :
          /\ heater.emitted.uncontrolled[k] = 0
          /\ ChargeAfterDischarge(heater.initial.uncontrolled.currentCharge,
                 ChargingRate(heater.a), heater.a.chargingPower,
                 heater.emitted.discharging, heater.emitted.uncontrolled, k)
               + ChargingRate(heater.a) = heater.a.capacity

\* the charging flag with which minute k starts: the flag at construction, then
\* whether the minute before was on
FlagBefore(k) ==
    IF k = 1 THEN heater.initial.spreadOut.charging
    ELSE heater.emitted.spreadOut[k - 1] = heater.a.chargingPower

\* the charge left after the discharge of minute k of the spread-out policy
SpreadOutChargeAt(k) ==
    ChargeAfterDischarge(heater.initial.spreadOut.currentCharge, ChargingRate(heater.a),
                         heater.a.chargingPower, heater.emitted.discharging,
                         heater.emitted.spreadOut, k)

\* C23: over all the minutes of all the ticks, a minute that starts with the
\* flag on is on unless the charge left after its discharge plus chargingRate
\* exceeds the capacity, a minute that starts with the flag off is on only if the
\* charge left after its discharge is at most 0, the demand is chargingPower
\* exactly in the minutes that are on, and the stored flag is that of the last
\* minute.
C23_ThermostatHysteresis ==
    heater # <<>> =>
        /\ \A k \in 1..Len(heater.emitted.spreadOut) :
              heater.emitted.spreadOut[k] =
                  IF (IF FlagBefore(k)
                      THEN ~(SpreadOutChargeAt(k) + ChargingRate(heater.a) > heater.a.capacity)
                      ELSE SpreadOutChargeAt(k) <= 0)
                  THEN heater.a.chargingPower ELSE 0
        /\ heater.a.spreadOut.charging = FlagBefore(Len(heater.emitted.spreadOut) + 1)
        /\ heater.a.spreadOut.currentCharge =
               ReplayedCharge(heater.initial.spreadOut.currentCharge,
                   ChargingRate(heater.a), heater.a.chargingPower,
                   heater.emitted.discharging, heater.emitted.spreadOut,
                   Len(heater.emitted.spreadOut))

\* the flag stayed on from the last minute of a tick into the next tick, it was
\* turned off in some minute and turned on at a charge of exactly 0 in another
C23_FlagKeptAndToggled ==
    /\ heater # <<>>
    /\ heater.ticks >= 2
    /\ FlagBefore(oneDay + 1) /\ FlagBefore(oneDay + 2)
    /\ \E k \in 1..Len(heater.emitted.spreadOut) : FlagBefore(k) /\ ~FlagBefore(k + 1)
    /\ \E k \in 1..Len(heater.emitted.spreadOut) :
          ~FlagBefore(k) /\ FlagBefore(k + 1) /\ SpreadOutChargeAt(k) = 0

-----------------------------------------------------------------------------
(* Claims about the Battery *)

\* the day leaves more slots than the charge needs, and the charge needs some
BatteryHasTime ==
    LET slots == SlotsToChargeCompletely(bat.chargeNeeded, bat.chargePerSlot)
    IN  slots > 0 /\ bat.disconnectionSlot - bat.connectionSlot > slots

\* C5: for every day with disconnectSlot - connectSlot > slotsNeeded > 0 the
\* power profile of Battery SMART and that of Battery UNCONTROLLED each
\* integrate (sum / 60) to exactly chargeNeeded.
C5_DeliversChargeNeeded ==
    (batLast # <<>> /\ BatteryHasTime) =>
        /\ SumSeq(batLast.smart) = bat.chargeNeeded * MinutesPerHour
        /\ SumSeq(batLast.uncontrolled) = bat.chargeNeeded * MinutesPerHour

\* a day planned with time to spare whose charge needs full slots and a
\* partial last slot
C5_PartialLastSlot ==
    /\ batLast # <<>>
    /\ BatteryHasTime
    /\ SlotsToChargeCompletely(bat.chargeNeeded, bat.chargePerSlot) >= 2
    /\ bat.chargeNeeded % bat.chargePerSlot # 0

\* the cells of [connectionSlot, disconnectionSlot) of a day's power profile
ConnectedCells(b) == (b.connectionSlot + 1)..b.disconnectionSlot

\* the day is too short for the charge: fewer connected slots than it needs
BatteryShortOfTime ==
    bat.disconnectionSlot - bat.connectionSlot
        < SlotsToChargeCompletely(bat.chargeNeeded, bat.chargePerSlot)

\* the SPREAD-OUT power is one constant over the connected slots
SpreadOutConstant ==
    \A i, j \in ConnectedCells(bat) : batLast.spreadOut[i] = batLast.spreadOut[j]

\* the SPREAD-OUT power over the connected slots integrates to chargeNeeded
SpreadOutDelivers ==
    SumSeq([i \in 1..(bat.disconnectionSlot - bat.connectionSlot) |->
               batLast.spreadOut[bat.connectionSlot + i]])
        = bat.chargeNeeded * MinutesPerHour

\* C14 as stated: for every day with chargeNeeded > 0 the SPREAD-OUT power of the
\* Battery is the same constant on every minute of [connectSlot, disconnectSlot)
\* and its integral over that interval (sum / 60) equals chargeNeeded
C14_SpreadOutAnyDay ==
    (batLast # <<>> /\ bat.chargeNeeded > 0) =>
        SpreadOutConstant /\ SpreadOutDelivers

\* C14 amended: for every day with chargeNeeded > 0 the SPREAD-OUT power of the
\* Battery is the same constant on every minute of [connectSlot, disconnectSlot),
\* and on a day with at least slotsToChargeCompletely connected slots its
\* integral over that interval (sum / 60) equals chargeNeeded
C14_SpreadOutWithTime ==
    (batLast # <<>> /\ bat.chargeNeeded > 0) =>
        /\ SpreadOutConstant
        /\ ~BatteryShortOfTime => SpreadOutDelivers

\* a day planned whose connected slots are exactly as many as the charge needs,
\* the last of them only in part
C14_JustEnoughTime ==
    /\ batLast # <<>>
    /\ bat.chargeNeeded > 0
    /\ bat.disconnectionSlot - bat.connectionSlot
         = SlotsToChargeCompletely(bat.chargeNeeded, bat.chargePerSlot)
    /\ bat.disconnectionSlot - bat.connectionSlot >= 2
    /\ bat.chargeNeeded % bat.chargePerSlot # 0

\* the day has no more connected slots than the charge needs, and it needs some
BatteryNoSpareTime ==
    /\ SlotsToChargeCompletely(bat.chargeNeeded, bat.chargePerSlot) > 0
    /\ bat.disconnectionSlot - bat.connectionSlot
         <= SlotsToChargeCompletely(bat.chargeNeeded, bat.chargePerSlot)

\* powerProfile is chargingPower on every connected minute and zero elsewhere
FullPowerWhileConnected(powerProfile) ==
    \A i \in 1..Len(powerProfile) :
        powerProfile[i] = IF i \in ConnectedCells(bat)
                          THEN bat.chargePerSlot * MinutesPerHour ELSE 0

\* C19: under each of SMART, UNCONTROLLED and SPREAD-OUT, whenever
\* slotsNeeded > 0 and disconnectSlot - connectSlot <= slotsNeeded, equality
\* included, the day's power profile of the Battery is chargingPower on every
\* minute of [connectSlot, disconnectSlot) and zero on every other minute
C19_ShortIntervalFilled ==
    (batLast # <<>> /\ BatteryNoSpareTime) =>
        /\ FullPowerWhileConnected(batLast.smart)
        /\ FullPowerWhileConnected(batLast.uncontrolled)
        /\ FullPowerWhileConnected(batLast.spreadOut)

\* a day planned with exactly as many connected slots as the charge needs
C19_ExactlyEnoughSlots ==
    /\ batLast # <<>>
    /\ BatteryNoSpareTime
    /\ bat.disconnectionSlot - bat.connectionSlot
         = SlotsToChargeCompletely(bat.chargeNeeded, bat.chargePerSlot)
    /\ ~FullPowerWhileConnected(batLast.uncontrolled)

\* the 0-based minutes of the two days of a power profile in which the
\* battery is not connected
DisconnectedSlots ==
    {i \in 0..(2 * BatteryDay - 1) : i < bat.connectionSlot \/ i >= bat.disconnectionSlot}

\* C28: for each of the three policies the power profile of a day is zero in
\* every minute outside [connectSlot, disconnectSlot), whether the connected
\* interval is longer than, as long as or shorter than the slots needed.
C28_DrawsOnlyWhileConnected ==
    batLast # <<>> =>
        \A i \in DisconnectedSlots :
            /\ batLast.smart[i + 1] = 0
            /\ batLast.uncontrolled[i + 1] = 0
            /\ batLast.spreadOut[i + 1] = 0

\* on a day with exactly as many connected slots as the charge needs the
\* UNCONTROLLED profile draws the rest of the charge in the minute of the
\* disconnection, and SMART and SPREAD-OUT draw nothing while disconnected
C28_DrawsAtDisconnection ==
    /\ batLast # <<>>
    /\ bat.disconnectionSlot - bat.connectionSlot
         = SlotsToChargeCompletely(bat.chargeNeeded, bat.chargePerSlot)
    /\ batLast.uncontrolled[bat.disconnectionSlot + 1]
         = LastSlotPower(bat.chargeNeeded, bat.chargePerSlot,
                         SlotsToChargeCompletely(bat.chargeNeeded, bat.chargePerSlot))
    /\ batLast.uncontrolled[bat.disconnectionSlot + 1] > 0
    /\ \A i \in DisconnectedSlots : batLast.smart[i + 1] = 0 /\ batLast.spreadOut[i + 1] = 0

-----------------------------------------------------------------------------
(* Claims about the Connection *)

\* the cheap minutes of the calendar day that starts at midnight
CheapMinutesOfDay(midnight) ==
    CheapMinutes(ProfileGet(conn.cheaperMinutesProfile, midnight, midnight + ConnDay).res)

\* C10: with cheapMinutesCount = Q > 0, for every midnight M processed by
\* generateRandomCheaperIntervals the number of cheap minutes in the calendar
\* day [M, M + 1 day) of cheaperMinutesProfile is exactly Q when
\* cheapIntervalLength is 1 and at least Q when it is larger.
C10_CheapMinutesPerDay ==
    (conn # <<>> /\ conn.cheapMinutesTotal > 0 /\ conn.pc = "idle") =>
        \A k \in 0..(conn.midnights - 1) :
            IF conn.cheapIntervalLength = 1
            THEN CheapMinutesOfDay(k * ConnDay) = conn.cheapMinutesTotal
            ELSE CheapMinutesOfDay(k * ConnDay) >= conn.cheapMinutesTotal

\* intervals longer than a minute have been generated for every midnight
C10_IntervalsGenerated ==
    /\ conn # <<>>
    /\ conn.cheapMinutesTotal > 0
    /\ conn.cheapIntervalLength > 1
    /\ conn.pc = "idle"
    /\ conn.midnights = MaxMidnights

\* the buffer the Connection saved for its last midnight, when no interval of
\* the midnight before reaches into it
LastBuffer ==
    ProfileGet(conn.cheaperMinutesProfile, conn.midnight - ConnDay,
               conn.midnight + 2 * conn.cheapIntervalLength).res

\* the buffers the while loop can leave for the probabilities of the last midnight
LoopBuffers ==
    PlacedIntervals(Zeros(ConnDay + 2 * conn.cheapIntervalLength),
                    PositivePositions(conn.probs), conn.cheapIntervalLength,
                    conn.cheapMinutesTotal)

\* C26: with cheapIntervalLength = 1 and cheapMinutesCount = Q > 0 the branch
\* that draws Q positions at once and the while loop can leave exactly the
\* same buffers for the same probabilities, and each cheap minute of the
\* buffer saved is the minute whose probability was sampled: the probabilities
\* are read from midnight + shift on, so cell i of the buffer belongs to
\* position i - cheapIntervalLength.
C26_BranchesAgree ==
    (/\ conn # <<>> /\ conn.pc = "idle" /\ ~conn.raised /\ conn.midnights > 0
     /\ conn.cheapIntervalLength = 1 /\ conn.cheapMinutesTotal > 0) =>
        /\ MarkedMinutes(Zeros(ConnDay + 2), PositivePositions(conn.probs),
                         conn.cheapMinutesTotal) = LoopBuffers
        /\ LastBuffer \in LoopBuffers
        /\ \A i \in 0..(Len(LastBuffer) - 1) :
              LastBuffer[i + 1] > 0 => (i - conn.cheapIntervalLength) \in PositivePositions(conn.probs)

\* the Connection drew the one position with a positive probability, the last
\* of the day, and made the minute before it cheap
C26_MinuteBeforeSampled ==
    /\ conn # <<>> /\ conn.pc = "idle" /\ ~conn.raised /\ conn.midnights = 1
    /\ conn.cheapIntervalLength = 1 /\ conn.cheapMinutesTotal = 1
    /\ PositivePositions(conn.probs) = {ConnDay - 1}
    /\ LastBuffer = SetAt(Zeros(ConnDay + 2), ConnDay, 1)
    /\ LoopBuffers = {SetAt(Zeros(ConnDay + 2), ConnDay + 1, 1)}

\* C30: with cheapIntervalLength > 1 and 0 < cheapMinutesCount <= the minutes
\* of a day, whenever the Connection is in the loop
\* "while numpy.sum(cheaperIntervals) < cheapMinutesTotal" for probabilities of
\* which at least one is positive, the loop is eventually left and the buffer
\* saved, provided every position with a positive probability keeps being
\* sampled.
C30_PlacementTerminates ==
    (/\ conn # <<>> /\ conn.pc = "placing"
     /\ conn.cheapIntervalLength > 1
     /\ conn.cheapMinutesTotal > 0 /\ conn.cheapMinutesTotal <= ConnDay
     /\ PositivePositions(conn.probs) # {})
        ~> (conn # <<>> /\ conn.pc = "idle")

\* the loop has placed the interval of every position with a positive
\* probability and the buffer still holds fewer cheap minutes than asked for
C30_NoPassRaisesTheSum ==
    /\ conn # <<>> /\ conn.pc = "placing"
    /\ conn.cheapIntervalLength > 1
    /\ conn.cheapMinutesTotal > 0 /\ conn.cheapMinutesTotal <= ConnDay
    /\ PositivePositions(conn.probs) # {}
    /\ SumSeq(conn.cheaperIntervals) < conn.cheapMinutesTotal
    /\ \A position \in PositivePositions(conn.probs) :
          PlaceInterval(conn.cheaperIntervals, conn.cheapIntervalLength, position)
              = conn.cheaperIntervals

-----------------------------------------------------------------------------
(* Claims about the Connection pricing day after day *)

\* the cell of a Profile at minute t, which the Profile holds
CellAt(p, t) == ProfileGet(p, t, t + 1).res[1]

\* the minutes of the windows already sent to the house
SentMinutes(f) == UNION {f.sent[k].fromDT..(f.sent[k].toDT - 1) : k \in 1..Len(f.sent)}

\* the minutes the model can give a cheap mask or a price
FeedMinutes ==
    (FeedStartingDT - oneDay)..(FeedStartingDT + (MaxFeedTicks + 2) * oneDay
                                   + 2 * MaxCheapIntervalLength)

\* the last window sent
LastSent(f) == f.sent[Len(f.sent)]

\* C25: once the Connection has sent the price of a minute to its House, no
\* later Connection.setUp or tick changes the cheap mask or the price of that
\* minute (as long as the Connection holds the minute); the windows sent are
\* contiguous and do not overlap; and the cheap intervals placed for the
\* midnights of a step only set cells at or after the first midnight and within
\* oneDay + 2 * cheapIntervalLength minutes of the last.
C25_BroadcastPricesFinal ==
    [][(feed # <<>> /\ feed.pc \in {"setUp", "tick"} /\ feed'.pc = "sent") =>
          /\ \A t \in SentMinutes(feed) :
                (/\ t >= feed'.conn.cheaperMinutesProfile.startingDT
                 /\ t >= feed'.conn.priceProfile.startingDT) =>
                    /\ CellAt(feed'.conn.cheaperMinutesProfile, t)
                           = CellAt(feed.conn.cheaperMinutesProfile, t)
                    /\ CellAt(feed'.conn.priceProfile, t) = CellAt(feed.conn.priceProfile, t)
                    /\ CellAt(feed'.conn.priceProfile, t) = CellAt(feed'.housePrices, t)
          /\ LastSent(feed').fromDT < LastSent(feed').toDT
          /\ feed.sent # <<>> => LastSent(feed').fromDT = LastSent(feed).toDT
          /\ \A t \in FeedMinutes :
                (/\ t >= feed'.conn.cheaperMinutesProfile.startingDT
                 /\ CellAt(feed'.conn.cheaperMinutesProfile, t)
                        # (IF feed.conn.cheaperMinutesProfile.isNone THEN 0
                           ELSE CellAt(feed.conn.cheaperMinutesProfile, t))) =>
                    /\ t >= LastSent(feed').fromDT
                    /\ t < LastSent(feed').toDT + 2 * feed.cheapIntervalLength
          /\ EndDT(feed'.conn.cheaperMinutesProfile)
                 <= LastSent(feed').toDT + 2 * feed.cheapIntervalLength]_vars

\* after the last tick a minute at the start of the window just sent is cheap
\* because an interval placed for the midnight before reaches into it
C25_IntervalReachesNextDay ==
    /\ feed # <<>>
    /\ feed.pc = "sent"
    /\ feed.ticks = MaxFeedTicks
    /\ feed.cheapIntervalLength > 1
    /\ feed.cheapMinutesTotal > 0
    /\ Len(feed.sent) = MaxFeedTicks + 1
    /\ CellAt(feed.conn.cheaperMinutesProfile, LastSent(feed).fromDT) > 0
    /\ CellAt(feed.housePrices, LastSent(feed).fromDT) = LowerPrice

-----------------------------------------------------------------------------
(* Claims about the whole simulation *)

\* C3: in every simulated day D, when Appliance.tick plans the demand of
\* [D, D + 1 day), the priceProfile of the appliance stores every minute of
\* [D, D + 2 days), and what it holds there are the prices its Connection
\* sent: a lower or a higher price for every minute, none of them a zero that
\* stands for a missing value.
C3_PriceLookahead ==
    \A h \in DOMAIN seen.planned :
        seen.planned[h] # <<>> =>
            /\ seen.planned[h].stored
            /\ seen.planned[h].storedFrom <= seen.planned[h].fromDT
            /\ seen.planned[h].storedTo >= seen.planned[h].fromDT + 2 * oneDay
            /\ ~seen.planned[h].held.error
            /\ ~seen.planned[h].sent.error
            /\ seen.planned[h].held.res = seen.planned[h].sent.res
            /\ Len(seen.planned[h].held.res) = 2 * oneDay
            /\ \A i \in DOMAIN seen.planned[h].held.res :
                  seen.planned[h].held.res[i] \in {LowerPrice, HigherPrice}

\* an appliance has planned a day after the first one, with the prices that
\* the tick of its Connection added to those of setUp
C3_LaterDayPlanned ==
    /\ sim # <<>>
    /\ \E h \in DOMAIN seen.planned :
          /\ seen.planned[h] # <<>>
          /\ seen.planned[h].fromDT > sim.startingDT

\* the demand of House h in the minute that starts at dt
HouseDemandAt(h, demand, dt) ==
    CASE demand = "smart" -> ProfileGet(houses[h].smartDemand, dt, dt + 1).res[1]
      [] demand = "uncontrolled" -> ProfileGet(houses[h].uncontrolledDemand, dt, dt + 1).res[1]
      [] demand = "spreadOut" -> ProfileGet(houses[h].spreadOutDemand, dt, dt + 1).res[1]

\* the aggregate demand of the Grid in the minute that starts at dt
GridDemandAt(demand, dt) ==
    CASE demand = "smart" -> ProfileGet(grid.smartDemand, dt, dt + 1).res[1]
      [] demand = "uncontrolled" -> ProfileGet(grid.uncontrolledDemand, dt, dt + 1).res[1]
      [] demand = "spreadOut" -> ProfileGet(grid.spreadOutDemand, dt, dt + 1).res[1]

\* the sum of the demands of the Houses 1..n in the minute that starts at dt
RECURSIVE SumOfHouses(_, _, _)
SumOfHouses(demand, dt, n) ==
    IF n = 0 THEN 0 ELSE SumOfHouses(demand, dt, n - 1) + HouseDemandAt(n, demand, dt)

\* C4: Grid.collectDemands runs once the tick of every House of the day has
\* completed, the window [currentDT - 1 day, currentDT) it reads is the day
\* every House aggregated in that tick, and after Grid.tick each of the three
\* aggregate demands of the Grid is, in every minute of that day, the sum of
\* the corresponding demand of all Houses.
C4_CollectionBarrier ==
    (sim # <<>> /\ seen.collected # <<>>) =>
        /\ seen.collected.fromDT = seen.collected.toDT - oneDay
        /\ \A h \in 1..sim.houseCount :
              /\ seen.collected.houseDT[h] = seen.collected.toDT
              /\ seen.collected.aggregated[h] # <<>>
              /\ seen.collected.aggregated[h].fromDT = seen.collected.fromDT
              /\ seen.collected.aggregated[h].toDT = seen.collected.toDT
        /\ seen.last = "grid" =>
              /\ grid.currentDT = seen.collected.toDT
              /\ \A demand \in {"smart", "uncontrolled", "spreadOut"} :
                 \A dt \in seen.collected.fromDT..(seen.collected.toDT - 1) :
                    GridDemandAt(demand, dt) = SumOfHouses(demand, dt, sim.houseCount)

\* the Grid has just collected a day in which two Houses both charged
C4_TwoHousesCollected ==
    /\ sim # <<>>
    /\ seen.last = "grid"
    /\ sim.houseCount = 2
    /\ \E dt \in seen.collected.fromDT..(seen.collected.toDT - 1) :
          /\ HouseDemandAt(1, "smart", dt) > 0
          /\ HouseDemandAt(2, "smart", dt) > 0

\* the Profile p stores no value of a minute before dt
StoresNothingBefore(p, dt) ==
    p.isNone \/ Len(p.values) = 0 \/ p.startingDT >= dt

\* the owner has ticked, and the currentDT its latest tick started at
HasTicked(owner) == owner.currentDT > sim.startingDT
TickStartedAt(owner) == owner.currentDT - oneDay

\* the Profiles an Appliance or a House owns, those of a Connection, those of the Grid
DemandProfilesOf(owner) ==
    {owner.priceProfile, owner.smartDemand, owner.uncontrolledDemand,
     owner.spreadOutDemand}

ConnectionProfilesOf(c) ==
    {c.cheaperPriceRatioProfile, c.cheaperMinutesProfile, c.priceProfile}

GridProfilesOf(g) ==
    {g.predictedBaseDemand, g.targetDemand, g.smartDemand, g.uncontrolledDemand,
     g.spreadOutDemand, g.cheapPriceRatio}

\* no Profile of ps stores a value earlier than one day before the latest tick
\* of its owner started, once the owner has ticked
PrunedAtTick(owner, ps) ==
    HasTicked(owner) =>
        \A p \in ps : StoresNothingBefore(p, TickStartedAt(owner) - oneDay)

\* what C16 says of the Appliances, the Houses and the Connections
HousesPrunedAtTick ==
    \A h \in DOMAIN houses :
        /\ PrunedAtTick(houses[h].appliance, DemandProfilesOf(houses[h].appliance))
        /\ PrunedAtTick(houses[h], DemandProfilesOf(houses[h]))
        /\ PrunedAtTick(conns[h], ConnectionProfilesOf(conns[h]))

\* C16 as stated: after any number of ticks no Profile of an Appliance, a House,
\* a Connection or the Grid stores a value earlier than one day before the
\* currentDT at which the latest tick of its owner started
C16_EveryProfilePruned ==
    sim # <<>> =>
        /\ HousesPrunedAtTick
        /\ PrunedAtTick(grid, GridProfilesOf(grid))

\* C16 amended: after any number of ticks no Profile of an Appliance, a House or
\* a Connection stores a value earlier than one day before the currentDT at
\* which the latest tick of its owner started
C16_HouseSidePruned ==
    sim # <<>> => HousesPrunedAtTick

\* after the second day every Profile of a House, of its appliance and of its
\* Connection begins later than it did after setUp: values have been dropped
C16_SecondDayPruned ==
    /\ sim # <<>>
    /\ sim.pc = "done"
    /\ sim.currentDT = sim.startingDT + 2 * oneDay
    /\ \A h \in DOMAIN houses :
          /\ HasTicked(houses[h]) /\ HasTicked(conns[h])
          /\ \A p \in DemandProfilesOf(houses[h]) \cup ConnectionProfilesOf(conns[h])
                      \cup {houses[h].appliance.priceProfile} :
                ~p.isNone /\ p.startingDT >= sim.startingDT

\* the Profile p stores every minute of [fromDT, toDT): Profile.get pads nothing
Covers(p, fromDT, toDT) == ~p.isNone /\ p.startingDT <= fromDT /\ toDT <= EndDT(p)

\* what Grid.setUp(dt) has read lies in what the Grid stores after it
SetUpReadsStored(g, dt) ==
    /\ Covers(g.predictedBaseDemand, (dt - 2 * oneDay) - oneDay,
                                     (dt + 3 * oneDay + halfDay) + halfDay)
    /\ Covers(g.targetDemand, (dt - 1 * oneDay) - oneDay,
                              (dt + 2 * oneDay + halfDay) + oneDay)
    /\ Covers(g.cheapPriceRatio, dt - 1 * oneDay, dt + 2 * oneDay + halfDay)

\* what the Grid.tick that moved the clock to cdt has read lies in what the Grid
\* stores after it
TickReadsStored(g, cdt) ==
    /\ Covers(g.predictedBaseDemand, (cdt + 2 * oneDay + halfDay) - oneDay,
                                     (cdt + 3 * oneDay + halfDay) + halfDay)
    /\ Covers(g.targetDemand, (cdt + 1 * oneDay + halfDay) - oneDay,
                              (cdt + 2 * oneDay + halfDay) + oneDay)
    /\ Covers(g.cheapPriceRatio, cdt + 1 * oneDay + halfDay, cdt + 2 * oneDay + halfDay)

\* C24: Grid.setUp and every Grid.tick read predictedBaseDemand, targetDemand
\* and cheapPriceRatio only where they are stored (each is written once in the
\* step, before it is read, and never pruned), and in every tick the transition
\* of targetDemand starts half a day (12 hours) before the end of what was
\* stored and the transition of cheapPriceRatio one day (24 hours) before it.
C24_HorizonBookkeeping ==
    [][/\ (sim # <<>> /\ sim.pc = "setUp" /\ sim'.pc # "raised")
            => SetUpReadsStored(grid', sim.startingDT)
       /\ (sim # <<>> /\ sim.pc = "grid" /\ sim'.pc # "raised")
            => /\ TickReadsStored(grid', grid'.currentDT)
               /\ grid'.currentDT = grid.currentDT + oneDay
               /\ EndDT(grid.targetDemand)
                      - (grid'.currentDT + 2 * oneDay + halfDay) = halfDay
               /\ EndDT(grid.cheapPriceRatio)
                      - (grid'.currentDT + 1 * oneDay + halfDay) = oneDay]_vars

\* the Grid has ticked twice after its setUp
C24_SecondTickPlanned ==
    /\ sim # <<>>
    /\ sim.pc # "raised"
    /\ seen.last = "grid"
    /\ grid.currentDT = sim.startingDT + 2 * oneDay

-----------------------------------------------------------------------------
(* Claims about the House *)

\* the demand of the house in the minute that starts at dt
HomeDemandAt(demand, dt) ==
    CASE demand = "smart" -> ProfileGet(home.house.smartDemand, dt, dt + 1).res[1]
      [] demand = "uncontrolled" -> ProfileGet(home.house.uncontrolledDemand, dt, dt + 1).res[1]
      [] demand = "spreadOut" -> ProfileGet(home.house.spreadOutDemand, dt, dt + 1).res[1]

\* the demand of appliance i of the house in the minute that starts at dt
ApplianceDemandAt(i, demand, dt) ==
    CASE demand = "smart" ->
            ProfileGet(home.house.appliances[i].smartDemand, dt, dt + 1).res[1]
      [] demand = "uncontrolled" ->
            ProfileGet(home.house.appliances[i].uncontrolledDemand, dt, dt + 1).res[1]
      [] demand = "spreadOut" ->
            ProfileGet(home.house.appliances[i].spreadOutDemand, dt, dt + 1).res[1]

\* the sum of the demands of the appliances 1..n in the minute that starts at dt
RECURSIVE SumOfAppliances(_, _, _)
SumOfAppliances(demand, dt, n) ==
    IF n = 0 THEN 0 ELSE SumOfAppliances(demand, dt, n - 1) + ApplianceDemandAt(n, demand, dt)

\* C11: after every House.tick that moved currentDT to D + 1 day, each of the
\* three demands of the House is, in every minute of [D, D + 1 day), the sum
\* of the corresponding demand of all its appliances; a House without
\* appliances reads zero in every minute.
C11_HouseAggregation ==
    (home # <<>> /\ home.ticks > 0 /\ home.pc # "raised") =>
        \A demand \in {"smart", "uncontrolled", "spreadOut"} :
        \A dt \in (home.house.currentDT - oneDay)..(home.house.currentDT - 1) :
            /\ HomeDemandAt(demand, dt)
                  = SumOfAppliances(demand, dt, Len(home.house.appliances))
            /\ Len(home.house.appliances) = 0 => HomeDemandAt(demand, dt) = 0

\* a House has aggregated a second day in which two appliances both charged
\* in the same minute
C11_TwoAppliancesSummed ==
    /\ home # <<>>
    /\ home.ticks = 2
    /\ home.pc # "raised"
    /\ Len(home.house.appliances) = 2
    /\ \E dt \in (home.house.currentDT - oneDay)..(home.house.currentDT - 1) :
          /\ ApplianceDemandAt(1, "smart", dt) > 0
          /\ ApplianceDemandAt(2, "smart", dt) > 0

\* the chargingPower of appliance i of the house
ChargingPowerOf(i) == home.house.appliances[i].chargePerSlot * MinutesPerHour

\* the three demand Profiles of appliance i of the house
DemandsOf(i) ==
    {home.house.appliances[i].smartDemand, home.house.appliances[i].uncontrolledDemand,
     home.house.appliances[i].spreadOutDemand}

\* C27: after any sequence of ticks, the smart, the uncontrolled and the
\* spread-out demand a battery has accumulated is at most its chargingPower in
\* every minute (the usage intervals being the substituted ones: connected
\* from 00:00, disconnected at 23:59).
C27_NeverAboveChargingPower ==
    (home # <<>> /\ home.pc # "raised") =>
        \A i \in DOMAIN home.house.appliances :
        \A demand \in DemandsOf(i) :
        \A k \in 1..Len(demand.values) :
            demand.values[k] <= ChargingPowerOf(i)

\* after two ticks a battery holds twice its chargingPower in the first minute
\* of the second day: the profile of each of the two days charges in it
C27_TwoDaysChargeOneMinute ==
    /\ home # <<>>
    /\ home.ticks = 2
    /\ home.pc # "raised"
    /\ Len(home.house.appliances) = 1
    /\ ApplianceDemandAt(1, "smart", oneDay) = 2 * ChargingPowerOf(1)
    /\ ApplianceDemandAt(1, "uncontrolled", oneDay) > ChargingPowerOf(1)

-----------------------------------------------------------------------------
(* Claims about the Machine *)

\* what the run costs when it starts at slot
RunCost(usage, priceProfile, slot) ==
    SumSeq([i \in 1..Len(usage.powerUsageProfile) |->
               usage.powerUsageProfile[i] * priceProfile[slot + i]])

\* C13: the run of a Machine costs under SMART no more than under UNCONTROLLED,
\* which starts it at startAfterSlot
C13_SmartNotDearer ==
    (mach # <<>> /\ mach.pc = "done" /\ mach.usage # None) =>
        RunCost(mach.usage, mach.priceProfile, mach.cheapestSlot)
            <= RunCost(mach.usage, mach.priceProfile, mach.usage.startAfter)

\* a planned run that is strictly cheaper under SMART than under UNCONTROLLED
C13_SmartCheaper ==
    /\ mach # <<>> /\ mach.pc = "done" /\ mach.usage # None
    /\ RunCost(mach.usage, mach.priceProfile, mach.cheapestSlot)
         < RunCost(mach.usage, mach.priceProfile, mach.usage.startAfter)

\* the starting slots Machine.calculateSmartDemand may choose from
CandidateSlots(usage) ==
    usage.startAfter .. (usage.finishBy + MachineDay - Len(usage.powerUsageProfile) - 1)

\* the run has room to move: finishBySlot - startAfterSlot > runtime
HasRoom(usage) ==
    usage.finishBy + MachineDay - usage.startAfter > Len(usage.powerUsageProfile)

\* slot is the earliest of the cheapest candidate slots
EarliestCheapest(usage, priceProfile, slot) ==
    /\ slot \in CandidateSlots(usage)
    /\ \A s \in CandidateSlots(usage) :
          /\ RunCost(usage, priceProfile, slot) <= RunCost(usage, priceProfile, s)
          /\ s < slot => RunCost(usage, priceProfile, slot) < RunCost(usage, priceProfile, s)

\* the usage profile sits at slot in the power profile, zeros around it
RunsAt(usage, powerProfile, slot) ==
    \A i \in 1..Len(powerProfile) :
        powerProfile[i] =
            IF i > slot /\ i <= slot + Len(usage.powerUsageProfile)
            THEN usage.powerUsageProfile[i - slot] ELSE 0

\* C20: with room to move, the SMART run of a Machine starts at the earliest of
\* the cheapest slots of [startAfterSlot, finishBySlot - runtime) and lies inside
\* [startAfterSlot, finishBySlot); without room it starts at startAfterSlot
C20_SmartStartSlot ==
    (mach # <<>> /\ mach.pc = "done" /\ mach.usage # None) =>
        /\ ~mach.error
        /\ RunsAt(mach.usage, mach.smart, mach.cheapestSlot)
        /\ IF HasRoom(mach.usage)
           THEN /\ EarliestCheapest(mach.usage, mach.priceProfile, mach.cheapestSlot)
                /\ mach.cheapestSlot >= mach.usage.startAfter
                /\ mach.cheapestSlot + Len(mach.usage.powerUsageProfile)
                     <= mach.usage.finishBy + MachineDay
           ELSE mach.cheapestSlot = mach.usage.startAfter

\* a planned run that starts later than startAfterSlot while a later slot costs the same
C20_TieTakenEarliest ==
    /\ mach # <<>> /\ mach.pc = "done" /\ mach.usage # None
    /\ HasRoom(mach.usage)
    /\ mach.cheapestSlot > mach.usage.startAfter
    /\ \E s \in CandidateSlots(mach.usage) :
          /\ s > mach.cheapestSlot
          /\ RunCost(mach.usage, mach.priceProfile, s)
               = RunCost(mach.usage, mach.priceProfile, mach.cheapestSlot)
          /\ RunCost(mach.usage, mach.priceProfile, s) > 0

-----------------------------------------------------------------------------
(* Claims about the planning of the Grid *)

\* every value the Profile stores is zero
AllZero(p) == \A i \in 1..Len(p.values) : p.values[i] = 0

\* C17: with no house connected, Grid.setUp and the tick after it finish without
\* raising an error, and the PredictedBaseDemand and the three demands of the
\* Grid are zero in every minute
C17_EmptyGridRuns ==
    (tg # <<>> /\ tg.connections = 0) =>
        /\ tg.pc # "raised"
        /\ AllZero(tg.grid.predictedBaseDemand)
        /\ AllZero(tg.grid.smartDemand)
        /\ AllZero(tg.grid.uncontrolledDemand)
        /\ AllZero(tg.grid.spreadOutDemand)

\* Grid.setUp has raised with no house connected, before any target was stored
C17_EmptyGridRaised ==
    /\ tg # <<>>
    /\ tg.connections = 0
    /\ tg.pc = "raised"
    /\ tg.grid.targetDemand.isNone

\* the minutes of the interval the latest calculateTargetDemand was asked for
RequestedLength == minutesBetween(tg.last.fromDT, tg.last.toDT)

\* the stored targetDemand in the minutes of that interval
StoredTarget == ProfileGet(tg.grid.targetDemand, tg.last.fromDT, tg.last.toDT).res

\* what the model rounds off an integral over the interval at most: less than
\* a unit per minute in the scaling and in the blending
RoundedOff == 2 * RequestedLength

\* values integrate over the interval to at least 0.9 of the expected
\* consumption before the noise
CoversExpected(values) ==
    10 * (IntervalConsumption(values, RequestedLength) + RoundedOff)
        >= 9 * tg.last.expected

\* the stored targetDemand is not negative in any minute of the interval
StoredNotNegative == \A i \in 1..RequestedLength : StoredTarget[i] >= 0

\* the call stored its target where nothing was stored before
NothingStoredBefore == tg.last.before.isNone

\* C15 as stated: after every calculateTargetDemand the stored targetDemand is
\* not negative in any minute of the requested interval and integrates over it
\* to at least 0.9 of the expected consumption before the noise
C15_StoredCoversExpected ==
    (tg # <<>> /\ tg.last # <<>>) =>
        StoredNotNegative /\ CoversExpected(StoredTarget)

\* C15 amended: after every calculateTargetDemand the stored targetDemand is
\* not negative in any minute of the requested interval, and the target the
\* call computed, before Profile.transition blends it with what was stored
\* earlier, integrates over the interval to at least 0.9 of the expected
\* consumption before the noise; where nothing was stored earlier, as in setUp,
\* the stored targetDemand does so too
C15_ComputedCoversExpected ==
    (tg # <<>> /\ tg.last # <<>>) =>
        /\ StoredNotNegative
        /\ CoversExpected(tg.last.computed)
        /\ NothingStoredBefore => CoversExpected(StoredTarget)

\* a tick whose computed target covers the expected consumption while the
\* stored one, blended with the lower target of the call before, does not
C15_BlendedBelowExpected ==
    /\ tg # <<>> /\ tg.last # <<>>
    /\ tg.ticks >= 1
    /\ CoversExpected(tg.last.computed)
    /\ ~CoversExpected(StoredTarget)

-----------------------------------------------------------------------------
(* Claims about the program *)

\* the text writes a number below zero
WritesNegative(text) ==
    /\ Len(text) >= 2
    /\ text[1] = "-"
    /\ \A i \in 2..Len(text) : text[i] \in Digits
    /\ \E i \in 2..Len(text) : text[i] # "0"

\* the text writes a number, below zero or not
WritesNumber(text) ==
    /\ Len(text) >= 1
    /\ \A i \in 2..Len(text) : text[i] \in Digits
    /\ text[1] \in Digits \/ (text[1] = "-" /\ Len(text) >= 2)

\* the program is given four arguments, a date and two numbers among them
WellFormed(argv) ==
    /\ argv.more = 1
    /\ ~StrpTime(argv.date).error
    /\ WritesNumber(argv.length)
    /\ WritesNumber(argv.count)

-----------------------------------------------------------------------------
(* Specification of the appliances ticking day by day: in the Houses of a whole
   simulation, in one House with several appliances, or one Accumulator alone *)

InitDays == InitSim \/ InitHome \/ InitHeater

NextDays == NextSim \/ NextHome \/ NextHeater

SpecDays == InitDays /\ [][NextDays]_vars

-----------------------------------------------------------------------------
(* Claims about the days already aggregated *)

\* the names of the three demand Profiles of an appliance, a House and the Grid
Demands == {"smartDemand", "uncontrolledDemand", "spreadOutDemand"}

\* the minutes a demand can be stored for
DayMinutes == (0 - 3 * oneDay)..((Max(MaxDays, MaxHomeTicks) + 3) * oneDay)

\* Profile p holds a value for the minute t
Holds(p, t) == ~p.isNone /\ t >= p.startingDT /\ t < EndDT(p)

\* every minute before upTo that Profile q holds was held by Profile p with
\* the same value
SameBefore(p, q, upTo) ==
    \A t \in DayMinutes :
        (t < upTo /\ Holds(q, t)) => (Holds(p, t) /\ CellAt(q, t) = CellAt(p, t))

\* the sum of the values the Profiles ps[1..n] have for the minute t
RECURSIVE SumAt(_, _, _)
SumAt(ps, t, n) == IF n = 0 THEN 0 ELSE SumAt(ps, t, n - 1) + CellAt(ps[n], t)

\* in every minute before upTo that the Profile total and all the Profiles ps
\* hold, total is the sum of ps
SumBefore(total, ps, upTo) ==
    \A t \in DayMinutes :
        (t < upTo /\ Holds(total, t) /\ \A n \in DOMAIN ps : Holds(ps[n], t)) =>
            CellAt(total, t) = SumAt(ps, t, Len(ps))

\* C29: once House.tick has aggregated the day [D, D + 1 day), no later tick
\* changes the smart, uncontrolled or spread-out demand an appliance holds for
\* a minute of that day (a Battery adds profiles of two days, an Accumulator
\* sets profiles of one day), and as long as they are held the aggregates of
\* the House and of the Grid for that day are the sum of the demands below them.
C29_AggregatedDaysFinal ==
    [][\A d \in Demands :
          /\ (home # <<>> /\ home'.pc # "raised") =>
                /\ \A i \in DOMAIN home.house.appliances :
                      SameBefore(home.house.appliances[i][d], home'.house.appliances[i][d],
                                 home.house.currentDT)
                /\ SameBefore(home.house[d], home'.house[d], home.house.currentDT)
                /\ SumBefore(home'.house[d],
                             [i \in DOMAIN home'.house.appliances |->
                                 home'.house.appliances[i][d]],
                             home'.house.currentDT)
          /\ (sim # <<>> /\ sim.pc # "setUp" /\ sim'.pc # "raised") =>
                /\ \A h \in DOMAIN houses :
                      /\ SameBefore(houses[h].appliance[d], houses'[h].appliance[d],
                                    houses[h].currentDT)
                      /\ SameBefore(houses[h][d], houses'[h][d], houses[h].currentDT)
                      /\ SumBefore(houses'[h][d], <<houses'[h].appliance[d]>>,
                                   houses'[h].currentDT)
                /\ SameBefore(grid[d], grid'[d], grid.currentDT)
                /\ SumBefore(grid'[d], [h \in DOMAIN houses' |-> houses'[h][d]],
                             grid'.currentDT)
          /\ heater # <<>> =>
                SameBefore(heater.a[d], heater'.a[d], heater.a.currentDT)]_vars

\* a House has ticked twice and its battery still holds what it drew in a
\* minute of the first day, aggregated by the first tick, after the second
\* tick added the profile of the next two days
C29_FirstDayKept ==
    /\ home # <<>>
    /\ home.ticks = 2
    /\ home.pc # "raised"
    /\ Len(home.house.appliances) = 1
    /\ \E t \in 0..(oneDay - 1) :
          /\ Holds(home.house.appliances[1].smartDemand, t)
          /\ CellAt(home.house.appliances[1].smartDemand, t) > 0
          /\ CellAt(home.house.smartDemand, t) = CellAt(home.house.appliances[1].smartDemand, t)
    /\ CellAt(home.house.appliances[1].smartDemand, oneDay) > 0

=============================================================================
